---- MODULE Spec2Model ----
(***************************************************************************)
(* A model of A5/rnn_lstm_captioning.py: the vanilla RNN forward/backward  *)
(* unrolling (rnn_forward, rnn_backward) and the greedy decode loop of     *)
(* CaptioningRNN.sample.                                                   *)
(*                                                                         *)
(* Tensors are records [shape, data] with row-major integer data, so that  *)
(* shape-changing calls (squeeze, transpose, mm) act on the shape as torch *)
(* does.  Real arithmetic is replaced by integer arithmetic: tanh is the   *)
(* integer saturation to [-1, 1], sigmoid the integer step, exp a power of *)
(* two.  Python exceptions are the distinguished tensor ShapeError and a   *)
(* pc value "raised".  Indices are 0-based, as in the source.              *)
(***************************************************************************)
EXTENDS Integers, Sequences, FiniteSets, TLC

\* ------------------------------------------------------------------ bounds
MaxN == 2
MaxT == 2
MaxD == 2
MaxH == 2
MaxSeed == 5

\* ---------------------------------------------------------- tensor kernel
RECURSIVE Prod(_)
Prod(s) == IF s = <<>> THEN 1 ELSE Head(s) * Prod(Tail(s))

\* A tensor; the comparison makes TLC evaluate the entries once, here, rather
\* than at every later read.
Tensor(shape, data) == [shape |-> shape, data |-> IF data = data THEN data ELSE <<>>]

\* The value of a name bound to None, and of a call that raised.
None == Tensor(<<>>, <<>>)
ShapeError == Tensor(<<-1>>, <<>>)
IsErr(a) == a.shape = <<-1>>

Rank(a) == Len(a.shape)

\* torch.Tensor.new_zeros(shape)
new_zeros(shape) == Tensor(shape, [k \in 1..Prod(shape) |-> 0])

\* a[i, j] of a matrix, 0-based
At2(a, i, j) == a.data[i * a.shape[2] + j + 1]

\* a[n, t, d] of a 3-d tensor, 0-based
At3(a, n, t, d) == a.data[(n * a.shape[2] + t) * a.shape[3] + d + 1]

Matrix(n, m, F(_, _)) ==
    Tensor(<<n, m>>, [k \in 1..(n * m) |-> F((k - 1) \div m, (k - 1) % m)])

\* a[:, i, :] of an (N, T, D) tensor: an (N, D) matrix
SliceT(a, i) ==
    IF i < 0 \/ i >= a.shape[2] THEN ShapeError
    ELSE LET F(n, d) == At3(a, n, i, d) IN Matrix(a.shape[1], a.shape[3], F)

\* a[:, i, :] = m for an (N, T, D) tensor a and an (N, D) matrix m
SetSliceT(a, i, m) ==
    IF IsErr(m) \/ m.shape # <<a.shape[1], a.shape[3]>> THEN ShapeError
    ELSE Tensor(a.shape,
           [k \in 1..Prod(a.shape) |->
              LET n == (k - 1) \div (a.shape[2] * a.shape[3])
                  t == ((k - 1) \div a.shape[3]) % a.shape[2]
                  d == (k - 1) % a.shape[3]
              IN IF t = i THEN At2(m, n, d) ELSE a.data[k]])

\* torch.Tensor.squeeze(): every dimension of size 1 is removed
squeeze(a) ==
    IF IsErr(a) THEN a
    ELSE Tensor(SelectSeq(a.shape, LAMBDA s : s # 1), a.data)

\* torch.Tensor.mm: both operands must be matrices with matching inner size
mm(a, c) ==
    IF IsErr(a) \/ IsErr(c) \/ Rank(a) # 2 \/ Rank(c) # 2 THEN ShapeError
    ELSE IF a.shape[2] # c.shape[1] THEN ShapeError
    ELSE LET RECURSIVE Dot(_, _, _)
             Dot(i, j, k) == IF k < 0 THEN 0
                             ELSE At2(a, i, k) * At2(c, k, j) + Dot(i, j, k - 1)
             F(i, j) == Dot(i, j, a.shape[2] - 1)
         IN Matrix(a.shape[1], c.shape[2], F)

\* a.T of a matrix
Transpose(a) ==
    IF IsErr(a) \/ Rank(a) # 2 THEN ShapeError
    ELSE LET F(i, j) == At2(a, j, i) IN Matrix(a.shape[2], a.shape[1], F)

\* a + c for equal shapes, or for a matrix a and a vector c broadcast over rows
add(a, c) ==
    IF IsErr(a) \/ IsErr(c) THEN ShapeError
    ELSE IF a.shape = c.shape
         THEN Tensor(a.shape, [k \in 1..Len(a.data) |-> a.data[k] + c.data[k]])
    ELSE IF Rank(a) = 2 /\ Rank(c) = 1 /\ (c.shape[1] = a.shape[2] \/ c.shape[1] = 1)
         THEN Tensor(a.shape, [k \in 1..Len(a.data) |->
                a.data[k] + c.data[IF c.shape[1] = 1 THEN 1 ELSE ((k - 1) % a.shape[2]) + 1]])
    ELSE ShapeError

\* elementwise map and elementwise product
Map(a, F(_)) ==
    IF IsErr(a) THEN a ELSE Tensor(a.shape, [k \in 1..Len(a.data) |-> F(a.data[k])])

mul(a, c) ==
    IF IsErr(a) \/ IsErr(c) \/ a.shape # c.shape THEN ShapeError
    ELSE Tensor(a.shape, [k \in 1..Len(a.data) |-> a.data[k] * c.data[k]])

\* torch.sum(a, axis=0) of a matrix: a vector
sum0(a) ==
    IF IsErr(a) \/ Rank(a) # 2 THEN ShapeError
    ELSE LET RECURSIVE Col(_, _)
             Col(i, j) == IF i < 0 THEN 0 ELSE At2(a, i, j) + Col(i - 1, j)
         IN Tensor(<<a.shape[2]>>, [j \in 1..a.shape[2] |-> Col(a.shape[1] - 1, j - 1)])

\* tanh on the integers: odd, monotone, saturating at -1 and 1
tanh(z) == IF z > 1 THEN 1 ELSE IF z < -1 THEN -1 ELSE z

\* ------------------------------------------------------------- vanilla RNN
\* rnn_step_forward: (next_h, cache), next_h = tanh(x Wx + prev_h Wh + b)
rnn_step_forward(x, prev_h, Wx, Wh, b) ==
    LET x_wx == mm(x, Wx)
        prev_wh == mm(prev_h, Wh)
        out == add(add(x_wx, prev_wh), b)
        next_h == Map(out, tanh)
    IN [next_h |-> next_h,
        cache |-> [x |-> x, Wx |-> Wx, Wh |-> Wh, prev_h |-> prev_h, next_h |-> next_h]]

\* A derivative of tanh that is one everywhere.
One(v) == 1

\* 1 - next_h ** 2, the derivative of tanh at the cached output
OneMinusSq(v) == 1 - v * v

\* rnn_step_backward
rnn_step_backward(dnext_h, cache) ==
    LET dout == mul(dnext_h, Map(cache.next_h, OneMinusSq))
    IN [dx |-> mm(dout, Transpose(cache.Wx)),
        dprev_h |-> mm(dout, Transpose(cache.Wh)),
        dWx |-> mm(Transpose(cache.x), dout),
        dWh |-> mm(Transpose(cache.prev_h), dout),
        db |-> sum0(dout)]

\* -------------------------------------------------- more of the tensor kernel
\* a @ c (torch.matmul) for a matrix or a vector a and a matrix c
matmul(a, c) ==
    IF IsErr(a) \/ IsErr(c) \/ Rank(c) # 2 THEN ShapeError
    ELSE IF Rank(a) = 2 THEN mm(a, c)
    ELSE IF Rank(a) = 1 /\ a.shape[1] = c.shape[1]
         THEN squeeze(mm(Tensor(<<1, a.shape[1]>>, a.data), c))
    ELSE ShapeError

\* a.reshape(shape)
reshape(a, shape) ==
    IF IsErr(a) \/ Prod(a.shape) # Prod(shape) THEN ShapeError
    ELSE Tensor(shape, a.data)

\* torch.flatten(a, start_dim=2) of a 4-d tensor
flatten2(a) == Tensor(<<a.shape[1], a.shape[2], a.shape[3] * a.shape[4]>>, a.data)

\* columns [k*H, (k+1)*H) of a matrix: chunk k of torch.split(a, H, dim=1)
Chunk(a, k, H) ==
    IF IsErr(a) \/ Rank(a) # 2 THEN ShapeError
    ELSE IF (k + 1) * H > a.shape[2] THEN ShapeError
    ELSE LET F(n, j) == At2(a, n, k * H + j) IN Matrix(a.shape[1], H, F)

\* sigmoid on the integers: the unit step
sigmoid(z) == IF z > 0 THEN 1 ELSE 0

\* exp on the integers: a power of two of the argument clipped to [-2, 2]
exp(z) == LET c == IF z > 2 THEN 2 ELSE IF z < -2 THEN -2 ELSE z
          IN IF c = -2 THEN 1 ELSE IF c = -1 THEN 2 ELSE IF c = 0 THEN 4
             ELSE IF c = 1 THEN 8 ELSE 16

\* math.sqrt(H) on the integers: the least r with r * r >= H
sqrt(H) == CHOOSE r \in 1..H : r * r >= H /\ (r - 1) * (r - 1) < H

\* ------------------------------------------------------------------- LSTM
\* The chunks read in the order i, f, g, o (that of torch.nn.LSTM): the
\* candidate from the third chunk, the output gate from the fourth.
GatesIFGO(preact, prev_h, prev_c) ==
    LET H == prev_h.shape[2]
        i == Map(Chunk(preact, 0, H), sigmoid)
        f == Map(Chunk(preact, 1, H), sigmoid)
        g == Map(Chunk(preact, 2, H), tanh)
        o == Map(Chunk(preact, 3, H), sigmoid)
        next_c == add(mul(f, prev_c), mul(i, g))
        next_h == mul(o, Map(next_c, tanh))
    IN [next_h |-> next_h, next_c |-> next_c]

\* The gating shared by LSTM.step_forward and AttentionLSTM.step_forward.
Gates(preact, prev_h, prev_c) ==
    LET H == prev_h.shape[2]
        i == Map(Chunk(preact, 0, H), sigmoid)
        f == Map(Chunk(preact, 1, H), sigmoid)
        o == Map(Chunk(preact, 2, H), sigmoid)
        g == Map(Chunk(preact, 3, H), tanh)
        next_c == add(mul(f, prev_c), mul(i, g))
        next_h == mul(o, Map(next_c, tanh))
    IN [next_h |-> next_h, next_c |-> next_c]

\* LSTM.step_forward
lstm_step_forward(x, prev_h, prev_c, Wx, Wh, b) ==
    LET inprod == matmul(x, Wx)
        hprod == matmul(prev_h, Wh)
        preact == add(add(inprod, hprod), b)
    IN Gates(preact, prev_h, prev_c)

\* AttentionLSTM.step_forward
attn_step_forward(x, prev_h, prev_c, attn, Wx, Wh, Wattn, b) ==
    LET inprod == matmul(x, Wx)
        hprod == matmul(prev_h, Wh)
        attnprod == matmul(attn, Wattn)
        preact == add(add(add(inprod, hprod), attnprod), b)
    IN Gates(preact, prev_h, prev_c)

\* -------------------------------------------------------------- attention
\* The side of the spatial grid of A and of the attention weights.
Grid == 4
Locations == Grid * Grid

\* An attention weight is the fraction <<numerator, denominator>>.
ZeroWeight == <<0, 1>>

\* a @ c for 3-d tensors: the matrix product of a[n] and c[n] for every n
bmm(a, c) ==
    IF IsErr(a) \/ IsErr(c) \/ Rank(a) # 3 \/ Rank(c) # 3 THEN ShapeError
    ELSE IF a.shape[1] # c.shape[1] \/ a.shape[3] # c.shape[2] THEN ShapeError
    ELSE LET P == a.shape[2]
             R == c.shape[3]
             RECURSIVE Dot(_, _, _, _)
             Dot(n, i, j, k) == IF k < 0 THEN 0
                                ELSE At3(a, n, i, k) * At3(c, n, k, j) + Dot(n, i, j, k - 1)
         IN Tensor(<<a.shape[1], P, R>>,
              [x \in 1..(a.shape[1] * P * R) |->
                 Dot((x - 1) \div (P * R), ((x - 1) \div R) % P, (x - 1) % R, a.shape[3] - 1)])

\* prev_h.unsqueeze(1) of a matrix
unsqueeze1(a) ==
    IF IsErr(a) \/ Rank(a) # 2 THEN ShapeError
    ELSE Tensor(<<a.shape[1], 1, a.shape[2]>>, a.data)

\* torch.transpose(a, 1, 2) of a 3-d tensor
transpose12(a) ==
    IF IsErr(a) \/ Rank(a) # 3 THEN ShapeError
    ELSE LET P == a.shape[2]
             Q == a.shape[3]
         IN Tensor(<<a.shape[1], Q, P>>,
              [x \in 1..(a.shape[1] * P * Q) |->
                 At3(a, (x - 1) \div (P * Q), (x - 1) % P, ((x - 1) \div P) % Q)])

\* torch.softmax(z, dim=2) in place of dim=1: the normalisation runs over the
\* last axis, of size 1, and every weight is exp(z) / exp(z).
softmax2(z) ==
    IF IsErr(z) \/ Rank(z) # 3 THEN ShapeError
    ELSE Tensor(z.shape, [x \in 1..Len(z.data) |-> <<exp(z.data[x]), exp(z.data[x])>>])

\* torch.softmax(z, dim=1) of an (N, L, 1) tensor: for every n the fractions
\* exp(z[n, l]) / sum over l of exp(z[n, l])
softmax1(z) ==
    IF IsErr(z) \/ Rank(z) # 3 THEN ShapeError
    ELSE LET L == z.shape[2]
             e == Map(z, exp)
             RECURSIVE Sum(_, _)
             Sum(n, l) == IF l < 0 THEN 0 ELSE At3(e, n, l, 0) + Sum(n, l - 1)
             den == Tensor(<<z.shape[1]>>, [n \in 1..z.shape[1] |-> Sum(n - 1, L - 1)])
         IN Tensor(z.shape, [x \in 1..Len(z.data) |-> <<e.data[x], den.data[((x - 1) \div L) + 1]>>])

\* A @ attn_weights for A of shape (N, H, L) and the fractions attn_weights of
\* shape (N, L, 1): the weighted sums of the columns of A, rounded down
WeightedSum(A, w) ==
    IF IsErr(A) \/ IsErr(w) \/ Rank(A) # 3 \/ Rank(w) # 3 THEN ShapeError
    ELSE IF A.shape[1] # w.shape[1] \/ A.shape[3] # w.shape[2] THEN ShapeError
    ELSE LET H == A.shape[2]
             RECURSIVE Sum(_, _, _)
             Sum(n, h, l) == IF l < 0 THEN 0
                             ELSE At3(A, n, h, l) * At3(w, n, l, 0)[1] + Sum(n, h, l - 1)
         IN Tensor(<<A.shape[1], H, 1>>,
              [x \in 1..(A.shape[1] * H) |->
                 Sum((x - 1) \div H, (x - 1) % H, A.shape[3] - 1)
                    \div At3(w, (x - 1) \div H, 0, 0)[2]])

\* dot_product_attention(prev_h, A): (attn, attn_weights)
dot_product_attention(prev_h, A4) ==
    LET N == A4.shape[1]
        H == A4.shape[2]
        A == flatten2(A4)
        q == unsqueeze1(prev_h)
        Scale(v) == v \div sqrt(H)
        scaled == Map(bmm(q, A), Scale)
        attn_weights == softmax1(transpose12(scaled))
        attn == WeightedSum(A, attn_weights)
    IN [attn |-> squeeze(attn),
        attn_weights |-> reshape(squeeze(attn_weights), <<N, Grid, Grid>>)]

\* A /= math.sqrt(H) on the caller's tensor: the grid scaled in place.
ScaledInPlace(A4) == Tensor(A4.shape, [k \in 1..Len(A4.data) |-> A4.data[k] \div 2])

\* The caller's A after a call of dot_product_attention: the function rebinds
\* its local name A to the flattened view and writes to no tensor in place.
AfterAttention(A4) == A4

\* A.mean(dim=(2, 3)): the mean over the grid, rounded down
mean23(A4) ==
    LET A == flatten2(A4)
        L == A.shape[3]
        RECURSIVE Sum(_, _, _)
        Sum(n, h, l) == IF l < 0 THEN 0 ELSE At3(A, n, h, l) + Sum(n, h, l - 1)
        F(n, h) == Sum(n, h, L - 1) \div L
    IN Matrix(A.shape[1], A.shape[2], F)

\* ------------------------------------------------------------------ state
VARIABLES
    rnn_in,     \* arguments of rnn_forward / rnn_backward: x, h0, Wx, Wh, b, dh
    rnn_pc,     \* position in rnn_forward / rnn_backward
    fwd,        \* locals of rnn_forward: h, hi, cache, i
    bwd,        \* locals of rnn_backward: dx, dprev_h, dWx, dWh, db, dh0, i
    calls,      \* the calls of rnn_step_backward so far: cache index and dnext_h
    smp_in,     \* CaptioningRNN.sample: the model (cell_type, weights), the images
                \* (dtype, N, projected features) and max_length
    smp,        \* locals of sample: pc, t, h, c, A, input, notend, captions,
                \* attn_weights_all
    steps,      \* the decode steps so far: what each one read and selected
    pure_in,    \* the arguments of a call of one of the functions without
                \* loop: dot_product_attention, step_forward, temporal_softmax_loss
    pure_out,   \* what that call returned
    seq_in,     \* LSTM.forward / AttentionLSTM.forward: the module (kind,
                \* weights) and the arguments x, h0 or A
    seq,        \* locals of forward: pc, t, prev_h, prev_c, A, hn
    seq_log,    \* the timesteps so far: what step_forward was given and returned
    ctor_in,    \* the arguments of CaptioningRNN.__init__
    self        \* the object under construction: pc and the attributes set

rnn_vars == <<rnn_in, rnn_pc, fwd, bwd, calls>>
smp_vars == <<smp_in, smp, steps>>
pure_vars == <<pure_in, pure_out>>
seq_vars == <<seq_in, seq, seq_log>>
ctor_vars == <<ctor_in, self>>
ext_vars == <<pure_vars, seq_vars, ctor_vars>>
vars == <<rnn_vars, smp_vars, ext_vars>>

\* Entries of the argument tensors: small integers spread by a seed.
Gen(seed, k) == (((seed * 31 + k * 17 + seed * k * 7 + 11) \div 3) % 3) - 1

GenTensor(shape, seed) == Tensor(shape, [k \in 1..Prod(shape) |-> Gen(seed, k)])

RnnArgs(N, T, D, H, sx, sw) ==
    [x  |-> GenTensor(<<N, T, D>>, sx),
     h0 |-> GenTensor(<<N, H>>, sx + 1),
     Wx |-> GenTensor(<<D, H>>, sw),
     Wh |-> GenTensor(<<H, H>>, sw + 1),
     b  |-> GenTensor(<<H>>, sw + 2),
     dh |-> GenTensor(<<N, T, H>>, sx + sw)]

\* No call of sample (of rnn_forward) is under way.
NoCall == [pc |-> "none"]

\* Nothing of the other functions is under way.
PureIdle == pure_in = [fn |-> "none"] /\ pure_out = NoCall
SeqIdle == seq_in = [kind |-> "none"] /\ seq = NoCall /\ seq_log = <<>>
CtorIdle == ctor_in = NoCall /\ self = NoCall

NoFwd == [h |-> None, hi |-> None, cache |-> <<>>, i |-> 0]
NoBwd == [dx |-> None, dprev_h |-> None, dWx |-> None, dWh |-> None,
          db |-> None, dh0 |-> None, i |-> 0]

InitRnn ==
    /\ \E N \in 1..MaxN, T \in 0..MaxT, D \in 1..MaxD, H \in 1..MaxH,
          sx \in 0..MaxSeed, sw \in 0..MaxSeed :
          rnn_in = RnnArgs(N, T, D, H, sx, sw)
    /\ rnn_pc = "start"
    /\ fwd = NoFwd
    /\ bwd = NoBwd
    /\ calls = <<>>
    /\ smp_in = NoCall
    /\ smp = NoCall
    /\ steps = <<>>
    /\ PureIdle /\ SeqIdle /\ CtorIdle

\* The sizes rnn_forward and rnn_backward unpack.
RnnN == rnn_in.x.shape[1]
RnnT == rnn_in.x.shape[2]
RnnD == rnn_in.x.shape[3]
RnnH == rnn_in.h0.shape[2]

\* ------------------------------------------------------------- rnn_forward
\* Lines 187-191: unpack the shapes, allocate h, start from h0 with no cache.
RnnForwardCall ==
    /\ rnn_pc = "start"
    /\ fwd' = [h |-> new_zeros(<<RnnN, RnnT, RnnH>>), hi |-> rnn_in.h0,
               cache |-> <<>>, i |-> 0]
    /\ rnn_pc' = "fwd_loop"
    /\ UNCHANGED <<rnn_in, bwd, calls, smp_vars, ext_vars>>

\* cache.insert(0, cache_i) in place of the append: the list in reverse order.
CacheAppendFirst(cache, cache_i) == <<cache_i>> \o cache

\* The cache list after cache.append(cache_i).
CacheAppend(cache, cache_i) == Append(cache, cache_i)

\* Lines 192-196: one iteration of the loop over range(T).
RnnForwardIter ==
    /\ rnn_pc = "fwd_loop"
    /\ fwd.i < RnnT
    /\ LET xi == squeeze(SliceT(rnn_in.x, fwd.i))
           r  == rnn_step_forward(xi, fwd.hi, rnn_in.Wx, rnn_in.Wh, rnn_in.b)
           h2 == SetSliceT(fwd.h, fwd.i, r.next_h)
       IN IF IsErr(r.next_h) \/ IsErr(h2)
          THEN /\ rnn_pc' = "fwd_raised"
               /\ fwd' = fwd
          ELSE /\ rnn_pc' = rnn_pc
               /\ fwd' = [h |-> h2, hi |-> r.next_h,
                          cache |-> CacheAppend(fwd.cache, r.cache), i |-> fwd.i + 1]
    /\ UNCHANGED <<rnn_in, bwd, calls, smp_vars, ext_vars>>

\* Line 200: return h, cache.
RnnForwardReturn ==
    /\ rnn_pc = "fwd_loop"
    /\ fwd.i = RnnT
    /\ rnn_pc' = "fwd_returned"
    /\ UNCHANGED <<rnn_in, fwd, bwd, calls, smp_vars, ext_vars>>

\* ------------------------------------------------------------ rnn_backward
\* cache[i] of the Python list, 0-based
CacheAt(i) == fwd.cache[i + 1]

\* Lines 229-233: the step of the last timestep, then dx is allocated.
RnnBackwardCall ==
    /\ rnn_pc = "fwd_returned"
    /\ LET T == rnn_in.dh.shape[2]
           N == rnn_in.dh.shape[1]
       IN IF T = 0
          THEN \* dh[:, -1, :] and cache[-1] of an empty axis: IndexError
               /\ rnn_pc' = "bwd_raised"
               /\ UNCHANGED <<bwd, calls>>
          ELSE LET g == SliceT(rnn_in.dh, T - 1)
                   r == rnn_step_backward(g, CacheAt(T - 1))
                   D == r.dx.shape[2]
               IN /\ bwd' = [dx |-> SetSliceT(new_zeros(<<N, T, D>>), T - 1, r.dx),
                             dprev_h |-> r.dprev_h, dWx |-> r.dWx, dWh |-> r.dWh,
                             db |-> r.db, dh0 |-> None, i |-> T - 2]
                  /\ calls' = <<[i |-> T - 1, dnext_h |-> g]>>
                  /\ rnn_pc' = "bwd_loop"
    /\ UNCHANGED <<rnn_in, fwd, smp_vars, ext_vars>>

\* dh[:, i, :] alone, the carried dprev_h left out.
StepGradientNoCarry(i) == SliceT(rnn_in.dh, i)

\* The gradient rnn_backward hands to rnn_step_backward at timestep i.
StepGradient(i) == add(SliceT(rnn_in.dh, i), bwd.dprev_h)

\* dWx = dWxi in place of dWx += dWxi: only the last contribution is kept.
AccumulateOverwrite(total, part) == part

\* dWx += dWxi (and likewise dWh, db)
Accumulate(total, part) == add(total, part)

\* Lines 234-240: one iteration of the loop over range(T-2, -1, -1).
RnnBackwardIter ==
    /\ rnn_pc = "bwd_loop"
    /\ bwd.i > -1
    /\ LET g == StepGradient(bwd.i)
           r == rnn_step_backward(g, CacheAt(bwd.i))
       IN /\ bwd' = [dx |-> SetSliceT(bwd.dx, bwd.i, r.dx),
                     dprev_h |-> r.dprev_h,
                     dWx |-> Accumulate(bwd.dWx, r.dWx),
                     dWh |-> Accumulate(bwd.dWh, r.dWh),
                     db |-> Accumulate(bwd.db, r.db),
                     dh0 |-> bwd.dh0, i |-> bwd.i - 1]
          /\ calls' = Append(calls, [i |-> bwd.i, dnext_h |-> g])
    /\ UNCHANGED <<rnn_in, rnn_pc, fwd, smp_vars, ext_vars>>

\* Lines 241-245: dh0 = dprev_h; return.
RnnBackwardReturn ==
    /\ rnn_pc = "bwd_loop"
    /\ bwd.i = -1
    /\ bwd' = [bwd EXCEPT !.dh0 = bwd.dprev_h]
    /\ rnn_pc' = "bwd_returned"
    /\ UNCHANGED <<rnn_in, fwd, calls, smp_vars, ext_vars>>

NextRnn ==
    \/ RnnForwardCall
    \/ RnnForwardIter
    \/ RnnForwardReturn
    \/ RnnBackwardCall
    \/ RnnBackwardIter
    \/ RnnBackwardReturn

SpecRnn == InitRnn /\ [][NextRnn]_vars

\* ------------------------------------------------------ claims: rnn_backward
RnnDh(t) == SliceT(rnn_in.dh, t)

\* The reverse chain unrolled by hand from dh and the caches: the gradient
\* that reaches timestep t, and the step-backward result of timestep t.
RECURSIVE ManualGrad(_)
ManualGrad(t) ==
    IF t = RnnT - 1 THEN RnnDh(t)
    ELSE add(RnnDh(t), rnn_step_backward(ManualGrad(t + 1), CacheAt(t + 1)).dprev_h)

ManualStep(t) == rnn_step_backward(ManualGrad(t), CacheAt(t))

RECURSIVE ManualSum(_, _)
ManualSum(t, which) ==
    LET part == IF which = "dWx" THEN ManualStep(t).dWx
                ELSE IF which = "dWh" THEN ManualStep(t).dWh
                ELSE ManualStep(t).db
    IN IF t = 0 THEN part ELSE add(ManualSum(t - 1, which), part)

IsZero(a) == \A k \in 1..Len(a.data) : a.data[k] = 0

\* C7: rnn_backward calls rnn_step_backward for the timesteps T-1, T-2, ..., 0
\* in this order; the gradient of the call for timestep t is dh[:, t, :] plus
\* the dprev_h the call for t+1 returned (plus zero for t = T-1); the dh0
\* returned is the dprev_h of the call for timestep 0.
C7_ReverseCarry ==
    /\ \A k \in 1..Len(calls) :
         /\ calls[k].i = RnnT - k
         /\ calls[k].dnext_h =
              add(RnnDh(calls[k].i),
                  IF k = 1 THEN new_zeros(<<RnnN, RnnH>>)
                  ELSE rnn_step_backward(calls[k - 1].dnext_h,
                                         CacheAt(calls[k - 1].i)).dprev_h)
    /\ rnn_pc = "bwd_returned" =>
         /\ Len(calls) = RnnT
         /\ calls[RnnT].i = 0
         /\ bwd.dh0 = rnn_step_backward(calls[RnnT].dnext_h, CacheAt(0)).dprev_h

\* A returned backward pass over two or more timesteps in which a non-zero
\* gradient was carried from one timestep into the previous one.
C7_Witness ==
    /\ rnn_pc = "bwd_returned"
    /\ RnnT >= 2
    /\ \E k \in 2..Len(calls) : calls[k].dnext_h # RnnDh(calls[k].i)
    /\ ~IsZero(bwd.dh0)

\* C8: the dWx, dWh and db rnn_backward returns are the sums over all T
\* timesteps of the hand-unrolled per-step dWx, dWh, db, and dx[:, t, :] is
\* the hand-unrolled dx of timestep t.
C8_GradientSums ==
    rnn_pc = "bwd_returned" =>
        /\ bwd.dWx = ManualSum(RnnT - 1, "dWx")
        /\ bwd.dWh = ManualSum(RnnT - 1, "dWh")
        /\ bwd.db = ManualSum(RnnT - 1, "db")
        /\ \A t \in 0..(RnnT - 1) : SliceT(bwd.dx, t) = ManualStep(t).dx

\* A returned backward pass in which two different timesteps both contribute
\* a non-zero dWx, dWh and db.
C8_Witness ==
    /\ rnn_pc = "bwd_returned"
    /\ \E t, u \in 0..(RnnT - 1) :
         /\ t # u
         /\ ~IsZero(ManualStep(t).dWx) /\ ~IsZero(ManualStep(u).dWx)
         /\ ~IsZero(ManualStep(t).dWh) /\ ~IsZero(ManualStep(u).dWh)
         /\ ~IsZero(ManualStep(t).db) /\ ~IsZero(ManualStep(u).db)

\* ------------------------------------------------------- claims: rnn_forward
RnnReturned == rnn_pc \in {"fwd_returned", "bwd_loop", "bwd_raised", "bwd_returned"}

\* The hidden state that enters timestep t: h0, or h[:, t-1, :].
RnnPrevH(t) == IF t = 0 THEN rnn_in.h0 ELSE SliceT(fwd.h, t - 1)

\* C9: the cache list rnn_forward returns has length T and its entry t is
\* (x_t, Wx, Wh, h_{t-1}, h_t); rnn_backward reads the entries T-1, ..., 0,
\* each once, in this order.
C9_CacheOrder ==
    /\ RnnReturned =>
         /\ Len(fwd.cache) = RnnT
         /\ \A t \in 0..(RnnT - 1) :
              CacheAt(t) = [x |-> SliceT(rnn_in.x, t), Wx |-> rnn_in.Wx,
                            Wh |-> rnn_in.Wh, prev_h |-> RnnPrevH(t),
                            next_h |-> SliceT(fwd.h, t)]
    /\ rnn_pc = "bwd_returned" =>
         [k \in 1..Len(calls) |-> calls[k].i] = [k \in 1..RnnT |-> RnnT - k]

\* A returned backward pass over two or more timesteps whose cache entries
\* all differ.
C9_Witness ==
    /\ rnn_pc = "bwd_returned"
    /\ RnnT >= 2
    /\ \A t, u \in 0..(RnnT - 1) : t # u => CacheAt(t) # CacheAt(u)

\* C10: for every N >= 1 and D >= 1 rnn_forward completes, and the h it
\* returns holds at h[:, t, :] the cell's forward result for x[:, t, :] and
\* the previous hidden state.
C10_ForwardCompletes ==
    /\ rnn_pc # "fwd_raised"
    /\ RnnReturned =>
         \A t \in 0..(RnnT - 1) :
            SliceT(fwd.h, t) =
               rnn_step_forward(SliceT(rnn_in.x, t), RnnPrevH(t),
                                rnn_in.Wx, rnn_in.Wh, rnn_in.b).next_h

\* ---------------------------------------------------- CaptioningRNN.sample
\* Bounds of the sampler's arguments and of the model it runs.
MaxLen == 3
VocabSize == 4
WordvecDim == 2
MaxFeatSeed == 3
MaxWSeed == 5

\* word_to_idx["<NULL>"], ["<START>"], ["<END>"]
NULL == 0
START == 1
END == 2

CellTypes == {"rnn", "lstm", "attn"}

\* The dtypes an image batch comes in: ImageEncoder.forward accepts both.
ImageDtypes == {"uint8", "float32"}

\* The trained parameters: word embedding, core network, output projector.
SampleModel(cell_type, H, sw) ==
    LET G == IF cell_type = "rnn" THEN 1 ELSE 4
    IN [cell_type |-> cell_type,
        W_embed |-> GenTensor(<<VocabSize, WordvecDim>>, sw),
        Wx |-> GenTensor(<<WordvecDim, G * H>>, sw + 1),
        Wh |-> GenTensor(<<H, G * H>>, sw + 2),
        Wattn |-> IF cell_type = "attn" THEN GenTensor(<<H, G * H>>, sw + 3) ELSE None,
        b |-> GenTensor(<<G * H>>, sw + 4),
        Wout |-> GenTensor(<<VocabSize, H>>, sw + 5),
        bout |-> GenTensor(<<VocabSize>>, sw + 6)]

\* featureProjector(imageEncoder(images)): (N, H) for 'rnn' and 'lstm' (after
\* the pooling), (N, H, 4, 4) for 'attn'.  The encoder is outside the model:
\* its output is any tensor of that shape.
ProjectedFeatures(cell_type, N, H, sf) ==
    IF cell_type = "attn" THEN GenTensor(<<N, H, Grid, Grid>>, sf)
    ELSE GenTensor(<<N, H>>, sf)

NoSample == [pc |-> "start", t |-> 0, h |-> None, c |-> None, A |-> None,
             input |-> None, notend |-> None, captions |-> None,
             attn_weights_all |-> None]

InitSample ==
    /\ \E cell_type \in CellTypes, dtype \in ImageDtypes, N \in 1..MaxN,
          H \in 1..MaxH, max_length \in 0..MaxLen,
          sf \in 0..MaxFeatSeed, sw \in 0..MaxWSeed :
          smp_in = [model |-> SampleModel(cell_type, H, sw),
                    dtype |-> dtype, N |-> N, max_length |-> max_length,
                    features |-> ProjectedFeatures(cell_type, N, H, sf)]
    /\ smp = NoSample
    /\ steps = <<>>
    /\ rnn_in = NoCall
    /\ rnn_pc = "none"
    /\ fwd = NoFwd
    /\ bwd = NoBwd
    /\ calls = <<>>
    /\ PureIdle /\ SeqIdle /\ CtorIdle

cell_type == smp_in.model.cell_type

\* images.new(shape).fill_(v)
full(shape, v) == Tensor(shape, [k \in 1..Prod(shape) |-> v])

\* Lines 582-641: the outputs are allocated, the recurrent state is set from
\* the projected features, every lane starts active with <START> as input.
SampleCall ==
    /\ smp.pc = "start"
    /\ LET N == smp_in.N
           attn == cell_type = "attn"
           A == smp_in.features
           h == IF attn THEN mean23(A) ELSE smp_in.features
       IN smp' = [pc |-> "loop", t |-> 0,
                  h |-> h,
                  c |-> IF attn THEN mean23(A) ELSE new_zeros(h.shape),
                  A |-> IF attn THEN A ELSE None,
                  input |-> full(<<N>>, START),
                  notend |-> full(<<N>>, 1),
                  captions |-> full(<<N, smp_in.max_length>>, NULL),
                  attn_weights_all |->
                      IF attn THEN full(<<N, smp_in.max_length, Grid, Grid>>, ZeroWeight)
                      ELSE None]
    /\ UNCHANGED <<smp_in, steps, rnn_vars, ext_vars>>

\* WordEmbedding.forward: W_embed[x] for a vector x of word indices
wordEmbedding(x) ==
    LET W == smp_in.model.W_embed
        F(n, j) == At2(W, x.data[n + 1], j)
    IN Matrix(x.shape[1], W.shape[2], F)

\* outProjector, an nn.Linear: h Wout^T + bout
outProjector(h) == add(mm(h, Transpose(smp_in.model.Wout)), smp_in.model.bout)

\* scores.argmax(dim=1): per row the first index of the maximal score
argmax(scores) ==
    IF IsErr(scores) THEN ShapeError
    ELSE LET V == scores.shape[2]
             Best(n) == CHOOSE v \in 0..(V - 1) :
                           /\ \A u \in 0..(V - 1) : At2(scores, n, u) <= At2(scores, n, v)
                           /\ \A u \in 0..(v - 1) : At2(scores, n, u) < At2(scores, n, v)
         IN Tensor(<<scores.shape[1]>>, [n \in 1..scores.shape[1] |-> Best(n - 1)])

\* attn_weights_all[:] = ... in place of [:, t]: every timestep overwritten.
RecordWeightsAll(all, t, attn_weights) ==
    IF IsErr(attn_weights) THEN ShapeError
    ELSE Tensor(all.shape,
           [k \in 1..Prod(all.shape) |->
              LET n == (k - 1) \div (all.shape[2] * Locations)
                  l == (k - 1) % Locations
              IN attn_weights.data[n * Locations + l + 1]])

\* attn_weights_all[:, t] = attn_weights
RecordWeights(all, t, attn_weights) ==
    IF IsErr(attn_weights) THEN ShapeError
    ELSE Tensor(all.shape,
           [k \in 1..Prod(all.shape) |->
              LET n == (k - 1) \div (all.shape[2] * Locations)
                  u == ((k - 1) \div Locations) % all.shape[2]
                  l == (k - 1) % Locations
              IN IF u = t THEN attn_weights.data[n * Locations + l + 1] ELSE all.data[k]])

\* The rows of new for the lanes still active, those of old for the ended.
KeepEnded(new, old) ==
    IF IsErr(new) \/ Rank(new) # 2 THEN new
    ELSE Tensor(new.shape,
           [k \in 1..Prod(new.shape) |->
              IF smp.notend.data[((k - 1) \div new.shape[2]) + 1] # 0
              THEN new.data[k] ELSE old.data[k]])

\* A core step that freezes the ended lanes: their h and c are kept.
CoreStepFrozen(embed_input) ==
    LET m == smp_in.model
    IN IF cell_type = "rnn"
       THEN [h |-> KeepEnded(rnn_step_forward(embed_input, smp.h, m.Wx, m.Wh, m.b).next_h,
                             smp.h),
             c |-> smp.c, attn_weights |-> None, A |-> smp.A,
             attn_weights_all |-> smp.attn_weights_all]
       ELSE IF cell_type = "lstm"
       THEN LET r == lstm_step_forward(embed_input, smp.h, smp.c, m.Wx, m.Wh, m.b)
            IN [h |-> KeepEnded(r.next_h, smp.h), c |-> KeepEnded(r.next_c, smp.c),
                attn_weights |-> None, A |-> smp.A,
                attn_weights_all |-> smp.attn_weights_all]
       ELSE LET a == dot_product_attention(smp.h, smp.A)
                r == attn_step_forward(embed_input, smp.h, smp.c, a.attn,
                                       m.Wx, m.Wh, m.Wattn, m.b)
            IN [h |-> KeepEnded(r.next_h, smp.h), c |-> KeepEnded(r.next_c, smp.c),
                attn_weights |-> a.attn_weights,
                A |-> smp.A,
                attn_weights_all |-> RecordWeights(smp.attn_weights_all, smp.t, a.attn_weights)]

\* Lines 649-657: one step of the core network; for 'attn' the attention of
\* the current h against A comes first and its weights are recorded.
CoreStep(embed_input) ==
    LET m == smp_in.model
    IN IF cell_type = "rnn"
       THEN [h |-> rnn_step_forward(embed_input, smp.h, m.Wx, m.Wh, m.b).next_h,
             c |-> smp.c, attn_weights |-> None, A |-> smp.A,
             attn_weights_all |-> smp.attn_weights_all]
       ELSE IF cell_type = "lstm"
       THEN LET r == lstm_step_forward(embed_input, smp.h, smp.c, m.Wx, m.Wh, m.b)
            IN [h |-> r.next_h, c |-> r.next_c, attn_weights |-> None, A |-> smp.A,
                attn_weights_all |-> smp.attn_weights_all]
       ELSE LET a == dot_product_attention(smp.h, smp.A)
                r == attn_step_forward(embed_input, smp.h, smp.c, a.attn,
                                       m.Wx, m.Wh, m.Wattn, m.b)
            IN [h |-> r.next_h, c |-> r.next_c, attn_weights |-> a.attn_weights,
                A |-> AfterAttention(smp.A),
                attn_weights_all |-> RecordWeights(smp.attn_weights_all, smp.t, a.attn_weights)]

\* notend[:] = False as soon as any lane selects <END>.
MarkEndedAll(notend, input) ==
    IF \E n \in 1..Len(input.data) : input.data[n] = END
    THEN Tensor(notend.shape, [n \in 1..Len(notend.data) |-> 0])
    ELSE notend

\* notend = (input != self._end): the flag follows the word just selected.
MarkEndedNow(notend, input) ==
    Tensor(notend.shape,
           [n \in 1..Len(notend.data) |-> IF input.data[n] = END THEN 0 ELSE 1])

\* notend[input == self._end] = False
MarkEnded(notend, input) ==
    Tensor(notend.shape,
           [n \in 1..Len(notend.data) |-> IF input.data[n] = END THEN 0 ELSE notend.data[n]])

\* A tensor of this dtype can index another one as a mask.
IsMask(dtype) == dtype \in {"bool", "uint8"}

\* captions[notend, t] = input[notend]
WriteCaptions(captions, notend, t, input) ==
    Tensor(captions.shape,
           [k \in 1..Prod(captions.shape) |->
              LET n == (k - 1) \div captions.shape[2]
                  u == (k - 1) % captions.shape[2]
              IN IF u = t /\ notend.data[n + 1] # 0 THEN input.data[n + 1]
                 ELSE captions.data[k]])

\* notend.any()
any(notend) == \E n \in 1..Len(notend.data) : notend.data[n] # 0

\* input left at <START>: the selected word is not fed back.
NextInputStart(scores) == full(<<scores.shape[1]>>, START)

\* The word fed to the next step (line 663).
NextInput(scores) == argmax(scores)

\* Lines 665-669: the locals after the body of the loop at t = smp.t, with
\* what the step read and selected (no record when the body raised), given
\* the core step's result, the selected words and the updated mask.
StepResult(core, input, notend) ==
    IF IsErr(core.h) \/ IsErr(core.c)
    THEN \* the core step raised (RuntimeError)
         [smp |-> [smp EXCEPT !.pc = "raised", !.A = core.A], steps |-> steps]
    ELSE IF ~IsMask(smp_in.dtype)
    THEN \* input[notend] raised (IndexError)
         [smp |-> [smp EXCEPT !.pc = "raised", !.h = core.h, !.c = core.c, !.A = core.A,
                              !.attn_weights_all = core.attn_weights_all,
                              !.input = input, !.notend = notend],
          steps |-> steps]
    ELSE [smp |-> [smp EXCEPT
                     !.pc = IF any(notend) THEN "loop" ELSE "break",
                     !.t = IF any(notend) THEN smp.t + 1 ELSE smp.t,
                     !.h = core.h, !.c = core.c, !.A = core.A,
                     !.attn_weights_all = core.attn_weights_all,
                     !.input = input, !.notend = notend,
                     !.captions = WriteCaptions(smp.captions, notend, smp.t, input)],
          steps |-> Append(steps,
                           [t |-> smp.t, input |-> smp.input, h |-> smp.h,
                            c |-> smp.c, notend |-> smp.notend,
                            selected |-> input, next_h |-> core.h,
                            attn_weights |-> core.attn_weights])]

\* Line 665 onwards: the mask is updated for the words just selected.
SelectStep(core, input) == StepResult(core, input, MarkEnded(smp.notend, input))

\* Lines 660-663 onwards: the scores of the new hidden state and their arg max.
ScoreStep(core) == SelectStep(core, NextInput(outProjector(core.h)))

\* Lines 645-669: the body of the loop over range(max_length) at t = smp.t.
SampleBody == ScoreStep(CoreStep(wordEmbedding(smp.input)))

\* The locals and the log take the values the body left.
Commit(body) == smp' = body.smp /\ steps' = body.steps

\* Lines 644-669: one iteration of the loop over range(max_length).
SampleStep ==
    /\ smp.pc = "loop"
    /\ smp.t < smp_in.max_length
    /\ Commit(SampleBody)
    /\ UNCHANGED <<smp_in, rnn_vars, ext_vars>>

\* Lines 674-677: the loop is over (exhausted or left by break); return.
SampleReturn ==
    /\ \/ smp.pc = "break"
       \/ smp.pc = "loop" /\ smp.t = smp_in.max_length
    /\ smp' = [smp EXCEPT !.pc = "returned"]
    /\ UNCHANGED <<smp_in, steps, rnn_vars, ext_vars>>

NextSample ==
    \/ SampleCall
    \/ SampleStep
    \/ SampleReturn

SpecSample == InitSample /\ [][NextSample]_vars

\* ------------------------------------------------------ claims: the sampler
Lanes == 0..(smp_in.N - 1)
Slots == 0..(smp_in.max_length - 1)

\* The decode step of timestep t, once executed.
StepAt(t) == steps[t + 1]
Executed(t) == t + 1 <= Len(steps)

\* The token selected for lane n at timestep t (line 663).
Selected(n, t) == StepAt(t).selected.data[n + 1]

\* The greedy choice for lane n at timestep t: the first arg max of the scores
\* of the hidden state that step produced.
Greedy(n, t) == argmax(outProjector(StepAt(t).next_h)).data[n + 1]

\* Lane n was active when timestep t began.
ActiveAt(n, t) == StepAt(t).notend.data[n + 1] # 0

Returned == smp.pc = "returned"

\* C1: a lane that is active when step t begins and selects <END> at step t
\* is ended by step t, and <END> is written to captions[n, t].
C1_EndWritten ==
    \A n \in Lanes : \A t \in Slots :
        (Executed(t) /\ ActiveAt(n, t) /\ Selected(n, t) = END) =>
            /\ smp.notend.data[n + 1] = 0
            /\ At2(smp.captions, n, t) = END

\* C2: when sample returns, every slot of a lane after the step at which the
\* lane selected <END> holds <NULL>, and every lane that has not selected
\* <END> up to step t holds at slot t the token it selected at step t.
C2_PadAfterEnd ==
    Returned =>
        /\ \A n \in Lanes : \A k \in Slots : \A t \in Slots :
              (Executed(k) /\ Selected(n, k) = END /\ t > k) =>
                  At2(smp.captions, n, t) = NULL
        /\ \A m \in Lanes : \A t \in Slots :
              (\A j \in 0..t : Executed(j) => Selected(m, j) # END) =>
                  /\ Executed(t)
                  /\ At2(smp.captions, m, t) = Selected(m, t)

\* A returned batch of two lanes: one selected <END> at a step that is not
\* the last slot, the other went on and wrote a word at a later slot.
C2_Witness ==
    /\ Returned
    /\ \E n \in Lanes : \E m \in Lanes : \E k \in Slots : \E t \in Slots :
          /\ n # m /\ t > k
          /\ Executed(k) /\ Selected(n, k) = END
          /\ Executed(t) /\ At2(smp.captions, m, t) # NULL
          /\ At2(smp.captions, n, t) = NULL

\* The first step after which every lane is ended, if there is one.
AllEndedAfter(k) == Executed(k) /\ \A n \in Lanes : \E j \in 0..k : Selected(n, j) = END
ExpectedSteps ==
    IF \E k \in Slots : AllEndedAfter(k)
    THEN (CHOOSE k \in Slots : AllEndedAfter(k) /\ \A j \in 0..(k - 1) : ~AllEndedAfter(j)) + 1
    ELSE smp_in.max_length

\* C3: sample always terminates: it never raises, and when it has returned it
\* has executed exactly min(max_length, k+1) steps, the slots of the steps it
\* did not execute holding <NULL>.
C3_TerminatesInSteps ==
    /\ smp.pc # "raised"
    /\ Returned =>
         /\ Len(steps) = ExpectedSteps
         /\ \A n \in Lanes : \A t \in Slots : ~Executed(t) => At2(smp.captions, n, t) = NULL

\* C4: the first step is fed <START> on every lane, every later step is fed
\* the tokens the step before it selected, and slot 0 of the output holds
\* <NULL> or the token selected at step 0, never the initial <START>.
C4_InputChain ==
    /\ \A n \in Lanes :
         /\ Executed(0) => StepAt(0).input.data[n + 1] = START
         /\ \A t \in Slots : (t > 0 /\ Executed(t)) =>
                StepAt(t).input.data[n + 1] = Greedy(n, t - 1)
    /\ (smp.pc # "start" /\ smp_in.max_length > 0) =>
         \A n \in Lanes :
            \/ At2(smp.captions, n, 0) = NULL
            \/ Executed(0) /\ At2(smp.captions, n, 0) = Greedy(n, 0)

\* Three executed steps, the second and the third fed different words, none
\* of them <START>, and a word written to slot 0.
C4_Witness ==
    /\ Executed(2)
    /\ \E n \in Lanes :
          /\ StepAt(1).input.data[n + 1] # START
          /\ StepAt(2).input.data[n + 1] # START
          /\ StepAt(1).input.data[n + 1] # StepAt(2).input.data[n + 1]
          /\ At2(smp.captions, n, 0) \notin {NULL, START}

\* attn_weights_all[n, t, :, :] as the 16 weights of lane n at timestep t
WeightsAt(all, n, t) ==
    [l \in 1..Locations |-> all.data[(n * all.shape[2] + t) * Locations + l]]

\* C5: the attention weights sample returns are zero at every timestep that
\* was not executed, and at an executed timestep t they are the weights of
\* dot_product_attention for the hidden state held before the cell update of
\* step t.
C5_AttentionWeights ==
    (Returned /\ cell_type = "attn") =>
        \A n \in Lanes : \A t \in Slots :
            WeightsAt(smp.attn_weights_all, n, t) =
                IF Executed(t)
                THEN WeightsAt(reshape(dot_product_attention(StepAt(t).h, smp_in.features).attn_weights,
                                       <<smp_in.N, 1, Grid, Grid>>), n, 0)
                ELSE [l \in 1..Locations |-> ZeroWeight]

\* A returned attention run that stopped early after two or more steps whose
\* recorded weights differ from one step to the next.
C5_Witness ==
    /\ Returned /\ cell_type = "attn"
    /\ Len(steps) >= 2 /\ Len(steps) < smp_in.max_length
    /\ \E n \in Lanes :
          WeightsAt(smp.attn_weights_all, n, 0) # WeightsAt(smp.attn_weights_all, n, 1)

\* ---------------------------------------------------- dot_product_attention
\* Nothing of rnn_forward / rnn_backward, nor of sample, is under way.
RnnIdle == rnn_in = NoCall /\ rnn_pc = "none" /\ fwd = NoFwd /\ bwd = NoBwd /\ calls = <<>>
SmpIdle == smp_in = NoCall /\ smp = NoCall /\ steps = <<>>

\* A call dot_product_attention(prev_h, A) with prev_h of shape (N, H) and A
\* of shape (N, H, 4, 4).
InitAttention ==
    /\ \E N \in 1..MaxN, H \in 1..MaxH, sh \in 0..MaxSeed, sa \in 0..MaxSeed :
          pure_in = [fn |-> "dot_product_attention",
                     prev_h |-> GenTensor(<<N, H>>, sh),
                     A |-> GenTensor(<<N, H, Grid, Grid>>, sa)]
    /\ pure_out = NoCall
    /\ RnnIdle /\ SmpIdle /\ SeqIdle /\ CtorIdle

\* What a call leaves: the tuple it returns and the caller's A.
AttentionResult(r, A4) ==
    [pc |-> "returned", attn |-> r.attn, attn_weights |-> r.attn_weights,
     A |-> AfterAttention(A4)]

\* Lines 825-860: the call runs and returns attn, attn_weights.
AttentionCall ==
    /\ pure_in.fn = "dot_product_attention"
    /\ pure_out = NoCall
    /\ pure_out' = AttentionResult(dot_product_attention(pure_in.prev_h, pure_in.A), pure_in.A)
    /\ UNCHANGED <<pure_in, rnn_vars, smp_vars, seq_vars, ctor_vars>>

NextAttention == AttentionCall

SpecAttention == InitAttention /\ [][NextAttention]_vars

\* -------------------------------------------- claims: dot_product_attention
AttentionReturned == pure_in.fn = "dot_product_attention" /\ pure_out.pc = "returned"

\* C11: for every N >= 1 and H >= 1, dot_product_attention returns attn of
\* shape exactly (N, H) and attn_weights of shape exactly (N, 4, 4).
C11_AttentionShapes ==
    AttentionReturned =>
        /\ pure_out.attn.shape = <<pure_in.A.shape[1], pure_in.A.shape[2]>>
        /\ pure_out.attn_weights.shape = <<pure_in.A.shape[1], Grid, Grid>>

\* The weight of location l for sequence n in an (N, 4, 4) tensor of weights.
WeightOf(w, n, l) == w.data[n * Locations + l + 1]

RECURSIVE NumeratorSum(_, _, _)
NumeratorSum(w, n, l) ==
    IF l < 0 THEN 0 ELSE WeightOf(w, n, l)[1] + NumeratorSum(w, n, l - 1)

\* C12: for every sequence n the 16 attention weights are non-negative
\* fractions over one positive denominator and their numerators sum to that
\* denominator: a probability distribution over the locations.
C12_WeightsNormalised ==
    AttentionReturned =>
        \A n \in 0..(pure_in.A.shape[1] - 1) :
            /\ \A l \in 0..(Locations - 1) :
                  /\ WeightOf(pure_out.attn_weights, n, l)[1] >= 0
                  /\ WeightOf(pure_out.attn_weights, n, l)[2] > 0
                  /\ WeightOf(pure_out.attn_weights, n, l)[2] =
                        WeightOf(pure_out.attn_weights, n, 0)[2]
            /\ NumeratorSum(pure_out.attn_weights, n, Locations - 1) =
                  WeightOf(pure_out.attn_weights, n, 0)[2]

\* A returned call on a batch of two whose sequences got different
\* distributions, one of them not uniform.
C12_Witness ==
    /\ AttentionReturned
    /\ pure_in.A.shape[1] >= 2
    /\ \E l \in 0..(Locations - 1) :
          WeightOf(pure_out.attn_weights, 0, l) # WeightOf(pure_out.attn_weights, 1, l)
    /\ \E l \in 1..(Locations - 1) :
          WeightOf(pure_out.attn_weights, 0, l) # WeightOf(pure_out.attn_weights, 0, 0)

\* ------------------------------------ LSTM.forward and AttentionLSTM.forward
SeqKinds == {"lstm", "attn"}

\* The module (its kind and parameters) and the arguments of forward: x and,
\* for LSTM, h0 or, for AttentionLSTM, A.
SeqArgs(kind, N, T, D, H, sx, sw) ==
    [kind |-> kind,
     x |-> GenTensor(<<N, T, D>>, sx),
     h0 |-> IF kind = "lstm" THEN GenTensor(<<N, H>>, sx + 1) ELSE None,
     A |-> IF kind = "attn" THEN GenTensor(<<N, H, Grid, Grid>>, sx + 1) ELSE None,
     Wx |-> GenTensor(<<D, 4 * H>>, sw),
     Wh |-> GenTensor(<<H, 4 * H>>, sw + 1),
     Wattn |-> IF kind = "attn" THEN GenTensor(<<H, 4 * H>>, sw + 2) ELSE None,
     b |-> GenTensor(<<4 * H>>, sw + 3)]

InitSeq ==
    /\ \E kind \in SeqKinds, N \in 1..MaxN, T \in 0..MaxT, D \in 1..MaxD,
          H \in 1..MaxH, sx \in 0..MaxFeatSeed, sw \in 0..MaxFeatSeed :
          seq_in = SeqArgs(kind, N, T, D, H, sx, sw)
    /\ seq = [pc |-> "start"]
    /\ seq_log = <<>>
    /\ RnnIdle /\ SmpIdle /\ PureIdle /\ CtorIdle

\* c0 = h0 in place of the zeros: the cell state starts as a copy of h0.
SameAs(a) == a

\* torch.zeros_like(a)
zeros_like(a) == new_zeros(a.shape)

\* The state both forward methods start from: (h0, c0).
SeqInitial ==
    IF seq_in.kind = "lstm"
    THEN [h0 |-> seq_in.h0, c0 |-> zeros_like(seq_in.h0)]
    ELSE [h0 |-> mean23(seq_in.A), c0 |-> mean23(seq_in.A)]

\* The locals at the head of the loop, given (h0, c0).
SeqLocals(init) ==
    [pc |-> "loop", t |-> 0, prev_h |-> init.h0, prev_c |-> init.c0,
     A |-> seq_in.A,
     hn |-> new_zeros(<<seq_in.x.shape[1], seq_in.x.shape[2], init.h0.shape[2]>>),
     result |-> None]

\* LSTM.forward lines 778-794, AttentionLSTM.forward lines 976-994: c0 and h0
\* are set, hn is allocated, the loop starts from (h0, c0).
SeqCall ==
    /\ seq.pc = "start"
    /\ seq' = SeqLocals(SeqInitial)
    /\ UNCHANGED <<seq_in, seq_log, rnn_vars, smp_vars, pure_vars, ctor_vars>>

\* The context of the initial state, used again at every timestep.
AttentionStale(prev_h, A4) == dot_product_attention(mean23(A4), A4).attn

\* attn, _ = dot_product_attention(prev_h, A)
AttentionAt(prev_h, A4) == dot_product_attention(prev_h, A4).attn

\* The locals and the log after the timestep seq.t, given the slice x_t, the
\* context, what step_forward returned and the A the attention call left.
SeqAdvance(x_t, attn, r, A_after) ==
    IF IsErr(r.next_h) \/ IsErr(r.next_c)
    THEN \* step_forward raised (RuntimeError)
         [seq |-> [seq EXCEPT !.pc = "raised", !.A = A_after], log |-> seq_log]
    ELSE [seq |-> [seq EXCEPT !.t = seq.t + 1,
                              !.prev_h = r.next_h, !.prev_c = r.next_c,
                              !.A = A_after,
                              !.hn = SetSliceT(seq.hn, seq.t, r.next_h)],
          log |-> Append(seq_log,
                         [t |-> seq.t, x_t |-> x_t, prev_h |-> seq.prev_h,
                          prev_c |-> seq.prev_c, attn |-> attn,
                          next_h |-> r.next_h, next_c |-> r.next_c])]

\* LSTM.forward lines 797-803: the body of the loop at t = seq.t.
LstmIter(x_t) ==
    SeqAdvance(x_t, None,
               lstm_step_forward(x_t, seq.prev_h, seq.prev_c,
                                 seq_in.Wx, seq_in.Wh, seq_in.b),
               seq.A)

\* AttentionLSTM.forward lines 1003-1005: the cell step with the context.
AttnIter(x_t, attn) ==
    SeqAdvance(x_t, attn,
               attn_step_forward(x_t, seq.prev_h, seq.prev_c, attn,
                                 seq_in.Wx, seq_in.Wh, seq_in.Wattn, seq_in.b),
               AfterAttention(seq.A))

\* The body of the loop over range(T) of either forward at t = seq.t.
SeqBody ==
    IF seq_in.kind = "lstm"
    THEN LstmIter(SliceT(seq_in.x, seq.t))
    ELSE AttnIter(SliceT(seq_in.x, seq.t), AttentionAt(seq.prev_h, seq.A))

SeqCommit(body) == seq' = body.seq /\ seq_log' = body.log

\* One iteration of the loop over range(T).
SeqStep ==
    /\ seq.pc = "loop"
    /\ seq.t < seq_in.x.shape[2]
    /\ SeqCommit(SeqBody)
    /\ UNCHANGED <<seq_in, rnn_vars, smp_vars, pure_vars, ctor_vars>>

\* return hn
SeqReturn ==
    /\ seq.pc = "loop"
    /\ seq.t = seq_in.x.shape[2]
    /\ seq' = [seq EXCEPT !.pc = "returned", !.result = seq.hn]
    /\ UNCHANGED <<seq_in, seq_log, rnn_vars, smp_vars, pure_vars, ctor_vars>>

NextSeq ==
    \/ SeqCall
    \/ SeqStep
    \/ SeqReturn

SpecSeq == InitSeq /\ [][NextSeq]_vars

\* ------------------------------------------------------ claims: forward
SeqN == seq_in.x.shape[1]
SeqT == seq_in.x.shape[2]
SeqH == seq_in.Wh.shape[1]
SeqStarted == seq.pc \in {"loop", "raised", "returned"}

\* LSTM.forward unrolled by hand: (h, c) after the first t timesteps.
RECURSIVE LstmUnroll(_)
LstmUnroll(t) ==
    IF t = 0 THEN [next_h |-> seq_in.h0, next_c |-> new_zeros(<<SeqN, SeqH>>)]
    ELSE lstm_step_forward(SliceT(seq_in.x, t - 1),
                           LstmUnroll(t - 1).next_h, LstmUnroll(t - 1).next_c,
                           seq_in.Wx, seq_in.Wh, seq_in.b)

\* C13: LSTM.forward applies step_forward to the timesteps 0, 1, ... in this
\* order, the first from (h0, zeros) and each later one from the (h, c) the
\* step before returned; hn[:, t, :] is the hidden state of step t; what it
\* returns is the (N, T, H) tensor hn alone, after exactly T steps.
C13_LstmForward ==
    (seq_in.kind = "lstm" /\ SeqStarted) =>
        /\ seq.pc # "raised"
        /\ \A k \in 1..Len(seq_log) :
              /\ seq_log[k].t = k - 1
              /\ seq_log[k].x_t = SliceT(seq_in.x, k - 1)
              /\ seq_log[k].prev_h = LstmUnroll(k - 1).next_h
              /\ seq_log[k].prev_c = LstmUnroll(k - 1).next_c
              /\ seq_log[k].next_h = LstmUnroll(k).next_h
              /\ SliceT(seq.hn, k - 1) = LstmUnroll(k).next_h
        /\ seq.pc = "returned" =>
              /\ Len(seq_log) = SeqT
              /\ seq.result = seq.hn
              /\ seq.result.shape = <<SeqN, SeqT, SeqH>>

\* A returned LSTM.forward of two or more timesteps in which the cell state
\* became non-zero and the hidden states of two timesteps differ.
C13_Witness ==
    /\ seq_in.kind = "lstm" /\ seq.pc = "returned"
    /\ Len(seq_log) >= 2
    /\ ~IsZero(seq_in.h0)
    /\ ~IsZero(seq_log[2].prev_c)
    /\ SliceT(seq.result, 0) # SliceT(seq.result, 1)

\* C14: AttentionLSTM.forward starts from h0 = c0 = the mean of A over the
\* grid; the context of timestep t is dot_product_attention of the hidden
\* state held before step t (the one step t-1 returned, h0 for t = 0) with A,
\* and the cell step of timestep t is taken with that context.
C14_AttentionForward ==
    (seq_in.kind = "attn" /\ SeqStarted) =>
        \A k \in 1..Len(seq_log) :
            /\ seq_log[k].t = k - 1
            /\ seq_log[k].prev_h = IF k = 1 THEN mean23(seq_in.A) ELSE seq_log[k - 1].next_h
            /\ seq_log[k].prev_c = IF k = 1 THEN mean23(seq_in.A) ELSE seq_log[k - 1].next_c
            /\ seq_log[k].attn = dot_product_attention(seq_log[k].prev_h, seq_in.A).attn
            /\ seq_log[k].next_h =
                  attn_step_forward(SliceT(seq_in.x, k - 1), seq_log[k].prev_h,
                                    seq_log[k].prev_c, seq_log[k].attn,
                                    seq_in.Wx, seq_in.Wh, seq_in.Wattn, seq_in.b).next_h
            /\ SliceT(seq.hn, k - 1) = seq_log[k].next_h

\* A returned AttentionLSTM.forward of two or more timesteps whose contexts
\* differ from one timestep to the next.
C14_Witness ==
    /\ seq_in.kind = "attn" /\ seq.pc = "returned"
    /\ Len(seq_log) >= 2
    /\ seq_log[1].attn # seq_log[2].attn
    /\ seq_log[1].prev_h # seq_log[2].prev_h

\* ------------------------------------------------- the users of the grid A
\* Every function that is handed the projected grid A: dot_product_attention
\* called on its own, AttentionLSTM.forward and CaptioningRNN.sample.
InitGrid == InitAttention \/ InitSeq \/ InitSample

NextGrid ==
    \/ NextAttention
    \/ NextSeq
    \/ NextSample

SpecGrid == InitGrid /\ [][NextGrid]_vars

\* C15: the grid A is the same value after every call of
\* dot_product_attention, at every point of AttentionLSTM.forward and at
\* every point of the attention variant of sample as the one handed in
\* before the first timestep.
C15_GridUnchanged ==
    /\ AttentionReturned => pure_out.A = pure_in.A
    /\ (seq_in.kind = "attn" /\ SeqStarted) => seq.A = seq_in.A
    /\ (smp_in # NoCall /\ cell_type = "attn" /\ smp.pc # "start") =>
           smp.A = smp_in.features

\* An attention sampling run that has returned after reading a grid with
\* non-zero entries at two timesteps or more.
C15_Witness ==
    /\ smp_in # NoCall /\ cell_type = "attn" /\ Returned
    /\ Len(steps) >= 2
    /\ \E k \in 1..Len(smp.A.data) : smp.A.data[k] > 0
    /\ smp.A = smp_in.features

\* ---------------------------------------------------- temporal_softmax_loss
\* Ground-truth indices spread by a seed: the bits of the seed, so that
\* seed 0 is the caption made of <NULL> alone.
GenTargets(shape, seed) ==
    Tensor(shape, [k \in 1..Prod(shape) |-> (seed \div (2 ^ ((k - 1) % 3))) % 2])

\* A call temporal_softmax_loss(x, y, ignore_index): scores of shape
\* (N, T, V), targets of shape (N, T) in [0, V), and an ignore index that is
\* a word index or an integer no target takes.
InitLoss ==
    /\ \E N \in 1..MaxN, T \in 1..MaxT, sx \in 0..MaxSeed, sy \in 0..MaxSeed,
          ignore_index \in (-1)..(VocabSize - 1) :
          pure_in = [fn |-> "temporal_softmax_loss",
                     x |-> GenTensor(<<N, T, VocabSize>>, sx),
                     y |-> GenTargets(<<N, T>>, sy),
                     ignore_index |-> ignore_index]
    /\ pure_out = NoCall
    /\ RnnIdle /\ SmpIdle /\ SeqIdle /\ CtorIdle

\* x.flatten(end_dim=1) of an (N, T, V) tensor, y.flatten() of an (N, T) one
flatten01(x) == Tensor(<<x.shape[1] * x.shape[2], x.shape[3]>>, x.data)
flatten(y) == Tensor(<<Prod(y.shape)>>, y.data)

\* log on the integers, the inverse of exp: log(exp(z)) = z, rounded down
\* in between.
log(s) == (CHOOSE k \in 0..s : 2 ^ k <= s /\ s < 2 ^ (k + 1)) - 2

\* The cross-entropy of one row of scores against its target:
\* log(sum over v of exp(input[k, v])) - input[k, target].
RowLoss(input, k, target) ==
    LET RECURSIVE Sum(_)
        Sum(v) == IF v < 0 THEN 0 ELSE exp(At2(input, k, v)) + Sum(v - 1)
    IN log(Sum(input.shape[2] - 1)) - At2(input, k, target)

\* No position is left out of the sum.
NeverIgnored(target, ignore_index) == FALSE

\* F.cross_entropy leaves out the rows whose target is ignore_index.
IsIgnored(target, ignore_index) == target = ignore_index

\* F.cross_entropy(input, target, reduction='sum', ignore_index=ignore_index)
cross_entropy(input, target, ignore_index) ==
    LET RECURSIVE Sum(_)
        Sum(k) == IF k < 0 THEN 0
                  ELSE (IF IsIgnored(target.data[k + 1], ignore_index) THEN 0
                        ELSE RowLoss(input, k, target.data[k + 1])) + Sum(k - 1)
    IN Sum(input.shape[1] - 1)

\* total / (N * T): the mean over the positions.
PositionMean(total, x) == <<total, x.shape[1] * x.shape[2]>>

\* total / x.shape[0], kept as the fraction <<total, N>>
BatchMean(total, x) == <<total, x.shape[1]>>

\* temporal_softmax_loss, line 379
temporal_softmax_loss(x, y, ignore_index) ==
    BatchMean(cross_entropy(flatten01(x), flatten(y), ignore_index), x)

\* Lines 364-384: the call runs and returns loss.
LossCall ==
    /\ pure_in.fn = "temporal_softmax_loss"
    /\ pure_out = NoCall
    /\ pure_out' = [pc |-> "returned",
                    loss |-> temporal_softmax_loss(pure_in.x, pure_in.y, pure_in.ignore_index)]
    /\ UNCHANGED <<pure_in, rnn_vars, smp_vars, seq_vars, ctor_vars>>

NextLoss == LossCall

SpecLoss == InitLoss /\ [][NextLoss]_vars

\* -------------------------------------------- claims: temporal_softmax_loss
LossReturned == pure_in.fn = "temporal_softmax_loss" /\ pure_out.pc = "returned"
LossN == pure_in.x.shape[1]
LossT == pure_in.x.shape[2]
Positions == (0..(LossN - 1)) \X (0..(LossT - 1))
Kept == {p \in Positions : At2(pure_in.y, p[1], p[2]) # pure_in.ignore_index}

\* The cross-entropy at position (n, t), from x[n, t, :] and y[n, t].
EntropyAt(n, t) ==
    LET RECURSIVE Sum(_)
        Sum(v) == IF v < 0 THEN 0 ELSE exp(At3(pure_in.x, n, t, v)) + Sum(v - 1)
    IN log(Sum(VocabSize - 1)) - At3(pure_in.x, n, t, At2(pure_in.y, n, t))

\* The sum of the cross-entropy over a set of positions.
RECURSIVE EntropyOver(_)
EntropyOver(P) ==
    IF P = {} THEN 0
    ELSE LET p == CHOOSE q \in P : TRUE
         IN EntropyAt(p[1], p[2]) + EntropyOver(P \ {p})

ScoresOutsideKept ==
    Tensor(pure_in.x.shape,
           [k \in 1..Len(pure_in.x.data) |->
              LET n == (k - 1) \div (LossT * VocabSize)
                  t == ((k - 1) \div VocabSize) % LossT
              IN IF <<n, t>> \in Kept THEN pure_in.x.data[k] ELSE 0])

\* C17: with every target equal to ignore_index the loss is 0 whatever the
\* scores; and the loss is the one the same targets give with the scores of
\* the ignored positions replaced.
C17_IgnoredPositions ==
    LossReturned =>
        /\ Kept = {} => pure_out.loss[1] = 0
        /\ pure_out.loss =
              temporal_softmax_loss(ScoresOutsideKept, pure_in.y, pure_in.ignore_index)

\* A returned call in which every one of two or more positions is ignored
\* and the scores at an ignored position are such that its cross-entropy
\* would not be zero.
C17_Witness ==
    /\ LossReturned
    /\ Kept = {}
    /\ Cardinality(Positions) >= 2
    /\ ScoresOutsideKept # pure_in.x
    /\ \E p \in Positions : EntropyAt(p[1], p[2]) > 0
    /\ pure_out.loss[1] = 0

\* ------------------------------------------------- CaptioningRNN.__init__
\* The cell_type tags a caller may pass: the three the class knows and some
\* it does not.
CellTags == CellTypes \cup {"gru", "attention", "LSTM"}

\* A vocabulary: <NULL> always, <START> and <END> when present, and a word.
Vocabulary(has_start, has_end) ==
    <<"<NULL>">> \o (IF has_start THEN <<"<START>">> ELSE <<>>)
                \o (IF has_end THEN <<"<END>">> ELSE <<>>) \o <<"a">>

\* word_to_idx of a vocabulary: each word to its index in [0, V)
WordToIdx(vocab) ==
    [w \in {vocab[i] : i \in 1..Len(vocab)} |->
        (CHOOSE i \in 1..Len(vocab) : vocab[i] = w) - 1]

InitCtor ==
    /\ \E tag \in CellTags, wordvec_dim \in 1..MaxD, hidden_dim \in 1..MaxH,
          has_start \in BOOLEAN, has_end \in BOOLEAN, pretrained \in BOOLEAN,
          ignoring \in BOOLEAN :
          ctor_in = [word_to_idx |-> WordToIdx(Vocabulary(has_start, has_end)),
                     wordvec_dim |-> wordvec_dim, hidden_dim |-> hidden_dim,
                     cell_type |-> tag, image_encoder_pretrained |-> pretrained,
                     ignore_index |-> IF ignoring THEN NULL ELSE "None"]
    /\ self = [pc |-> "start", attrs |-> <<>>]
    /\ RnnIdle /\ SmpIdle /\ PureIdle /\ SeqIdle

\* Every tag passes the check.
AnyCellType(tag) == TRUE

\* cell_type in {"rnn", "lstm", "attn"}
ValidCellType(tag) == tag \in {"rnn", "lstm", "attn"}

\* Lines 424-426: nn.Module is initialised, then the tag is checked and
\* ValueError raised for one outside the set.
CtorCheck ==
    /\ self.pc = "start"
    /\ self' = [self EXCEPT !.pc = IF ValidCellType(ctor_in.cell_type)
                                   THEN "attributes" ELSE "raised"]
    /\ UNCHANGED <<ctor_in, rnn_vars, smp_vars, pure_vars, seq_vars>>

\* dict.get(key, None)
get(d, key) == IF key \in DOMAIN d THEN d[key] ELSE "None"

\* self.name = value
SetAttr(attrs, name, value) == (name :> value) @@ attrs

\* Lines 428-437: the plain attributes.
CtorAttributes ==
    /\ self.pc = "attributes"
    /\ LET d == ctor_in.word_to_idx
       IN self' = [pc |-> "encoder",
                   attrs |-> [n \in {"cell_type", "word_to_idx", "idx_to_word",
                                     "_null", "_start", "_end", "ignore_index"} |->
                                IF n = "cell_type" THEN ctor_in.cell_type
                                ELSE IF n = "word_to_idx" THEN d
                                ELSE IF n = "idx_to_word"
                                     THEN [i \in {d[w] : w \in DOMAIN d} |->
                                             CHOOSE w \in DOMAIN d : d[w] = i]
                                ELSE IF n = "_null" THEN d["<NULL>"]
                                ELSE IF n = "_start" THEN get(d, "<START>")
                                ELSE IF n = "_end" THEN get(d, "<END>")
                                ELSE ctor_in.ignore_index]]
    /\ UNCHANGED <<ctor_in, rnn_vars, smp_vars, pure_vars, seq_vars>>

\* Line 450: self.imageEncoder = ImageEncoder(image_encoder_pretrained)
CtorEncoder ==
    /\ self.pc = "encoder"
    /\ self' = [pc |-> "projector",
                attrs |-> SetAttr(self.attrs, "imageEncoder",
                                  [class |-> "ImageEncoder",
                                   pretrained |-> ctor_in.image_encoder_pretrained])]
    /\ UNCHANGED <<ctor_in, rnn_vars, smp_vars, pure_vars, seq_vars>>

\* Lines 454-458: nn.Linear for 'rnn' and 'lstm', else a 1x1 nn.Conv2d.
FeatureProjectorFor(tag, hidden_dim) ==
    IF tag \in {"rnn", "lstm"}
    THEN [class |-> "Linear", in |-> "out_channels", out |-> hidden_dim]
    ELSE [class |-> "Conv2d", in |-> "out_channels", out |-> hidden_dim]

CtorProjector ==
    /\ self.pc = "projector"
    /\ self' = [pc |-> "embedding",
                attrs |-> SetAttr(self.attrs, "featureProjector",
                                  FeatureProjectorFor(self.attrs["cell_type"],
                                                      ctor_in.hidden_dim))]
    /\ UNCHANGED <<ctor_in, rnn_vars, smp_vars, pure_vars, seq_vars>>

\* Line 461: self.wordEmbedding = WordEmbedding(vocab_size, wordvec_dim)
CtorEmbedding ==
    /\ self.pc = "embedding"
    /\ self' = [pc |-> "core",
                attrs |-> SetAttr(self.attrs, "wordEmbedding",
                                  [class |-> "WordEmbedding",
                                   in |-> Cardinality(DOMAIN ctor_in.word_to_idx),
                                   out |-> ctor_in.wordvec_dim])]
    /\ UNCHANGED <<ctor_in, rnn_vars, smp_vars, pure_vars, seq_vars>>

\* Lines 464-469: RNN for 'rnn', LSTM for 'lstm', else AttentionLSTM.
CoreNetworkFor(tag, wordvec_dim, hidden_dim) ==
    [class |-> IF tag = "rnn" THEN "RNN"
               ELSE IF tag = "lstm" THEN "LSTM" ELSE "AttentionLSTM",
     in |-> wordvec_dim, out |-> hidden_dim]

CtorCore ==
    /\ self.pc = "core"
    /\ self' = [pc |-> "output",
                attrs |-> SetAttr(self.attrs, "coreNetwork",
                                  CoreNetworkFor(self.attrs["cell_type"],
                                                 ctor_in.wordvec_dim, ctor_in.hidden_dim))]
    /\ UNCHANGED <<ctor_in, rnn_vars, smp_vars, pure_vars, seq_vars>>

\* Line 473: self.outProjector = nn.Linear(hidden_dim, vocab_size); the
\* constructor returns.
CtorOutput ==
    /\ self.pc = "output"
    /\ self' = [pc |-> "done",
                attrs |-> SetAttr(self.attrs, "outProjector",
                                  [class |-> "Linear", in |-> ctor_in.hidden_dim,
                                   out |-> Cardinality(DOMAIN ctor_in.word_to_idx)])]
    /\ UNCHANGED <<ctor_in, rnn_vars, smp_vars, pure_vars, seq_vars>>

NextCtor ==
    \/ CtorCheck
    \/ CtorAttributes
    \/ CtorEncoder
    \/ CtorProjector
    \/ CtorEmbedding
    \/ CtorCore
    \/ CtorOutput

SpecCtor == InitCtor /\ [][NextCtor]_vars

\* ------------------------------------------- claims: CaptioningRNN.__init__
\* The class of the submodule held by an attribute.
ClassOf(name) == self.attrs[name].class

\* C18: with a tag outside 'rnn', 'lstm', 'attn' the constructor raises at
\* the check, and no attribute is ever set; with a tag inside, it never
\* raises and the finished object holds the core network of that variant
\* (RNN, LSTM, AttentionLSTM) and the matching feature projector (Linear
\* for 'rnn' and 'lstm', Conv2d for 'attn').
C18_InvalidCellType ==
    /\ ctor_in.cell_type \notin CellTypes =>
          /\ self.pc \in {"start", "raised"}
          /\ DOMAIN self.attrs = {}
    /\ ctor_in.cell_type \in CellTypes =>
          /\ self.pc # "raised"
          /\ self.pc = "done" =>
                /\ self.attrs["cell_type"] = ctor_in.cell_type
                /\ ClassOf("coreNetwork") =
                      (IF ctor_in.cell_type = "rnn" THEN "RNN"
                       ELSE IF ctor_in.cell_type = "lstm" THEN "LSTM"
                       ELSE "AttentionLSTM")
                /\ ClassOf("featureProjector") =
                      (IF ctor_in.cell_type = "attn" THEN "Conv2d" ELSE "Linear")
                /\ self.attrs["coreNetwork"].out = ctor_in.hidden_dim
                /\ self.attrs["featureProjector"].out = ctor_in.hidden_dim

\* A construction that raised on the tag 'attention', which the else
\* branches further down would have taken for the attention variant.
C18_Witness ==
    /\ ctor_in # NoCall
    /\ ctor_in.cell_type = "attention"
    /\ self.pc = "raised"
    /\ DOMAIN self.attrs = {}

\* ------------------------- LSTM.step_forward and AttentionLSTM.step_forward
\* One call of each step_forward on the same x, prev_h, prev_c, Wx, Wh, b;
\* the attention step also gets attn and Wattn, either of which may be zero.
InitCell ==
    /\ \E N \in 1..MaxN, D \in 1..MaxD, H \in 1..MaxH,
          sx \in 0..MaxSeed, sw \in 0..MaxSeed,
          zero_attn \in BOOLEAN, zero_Wattn \in BOOLEAN :
          pure_in = [fn |-> "step_forward",
                     x |-> GenTensor(<<N, D>>, sx),
                     prev_h |-> GenTensor(<<N, H>>, sx + 1),
                     prev_c |-> GenTensor(<<N, H>>, sx + 2),
                     attn |-> IF zero_attn THEN new_zeros(<<N, H>>)
                              ELSE GenTensor(<<N, H>>, sx + 3),
                     Wx |-> GenTensor(<<D, 4 * H>>, sw),
                     Wh |-> GenTensor(<<H, 4 * H>>, sw + 1),
                     Wattn |-> IF zero_Wattn THEN new_zeros(<<H, 4 * H>>)
                               ELSE GenTensor(<<H, 4 * H>>, sw + 2),
                     b |-> GenTensor(<<4 * H>>, sw + 3)]
    /\ pure_out = NoCall
    /\ RnnIdle /\ SmpIdle /\ SeqIdle /\ CtorIdle

\* LSTM.step_forward (lines 732-756) and AttentionLSTM.step_forward (lines
\* 921-947) run and return (next_h, next_c).
CellCall ==
    /\ pure_in.fn = "step_forward"
    /\ pure_out = NoCall
    /\ pure_out' = [pc |-> "returned",
                    lstm |-> lstm_step_forward(pure_in.x, pure_in.prev_h, pure_in.prev_c,
                                               pure_in.Wx, pure_in.Wh, pure_in.b),
                    attn |-> attn_step_forward(pure_in.x, pure_in.prev_h, pure_in.prev_c,
                                               pure_in.attn, pure_in.Wx, pure_in.Wh,
                                               pure_in.Wattn, pure_in.b)]
    /\ UNCHANGED <<pure_in, rnn_vars, smp_vars, seq_vars, ctor_vars>>

NextCell == CellCall

SpecCell == InitCell /\ [][NextCell]_vars

\* ------------------------------------------------- claims: step_forward
CellReturned == pure_in.fn = "step_forward" /\ pure_out.pc = "returned"
CellN == pure_in.x.shape[1]
CellH == pure_in.prev_h.shape[2]

\* Entry (n, j) of the product of the matrices a and w, summed by hand.
RECURSIVE DotAt(_, _, _, _, _)
DotAt(a, w, n, j, k) ==
    IF k < 0 THEN 0 ELSE At2(a, n, k) * At2(w, k, j) + DotAt(a, w, n, j, k - 1)

\* Entry (n, j) of the pre-activation x Wx + prev_h Wh + b, and of the one
\* with attn Wattn added.
PreactAt(n, j) ==
    DotAt(pure_in.x, pure_in.Wx, n, j, pure_in.x.shape[2] - 1)
      + DotAt(pure_in.prev_h, pure_in.Wh, n, j, CellH - 1) + pure_in.b.data[j + 1]
AttnPreactAt(n, j) ==
    PreactAt(n, j) + DotAt(pure_in.attn, pure_in.Wattn, n, j, CellH - 1)

\* next_c and next_h at (n, j) from the four pre-activation entries of
\* column j in the chunks i, f, o, g.
NextCFrom(pi, pf, pg, n, j) ==
    sigmoid(pf) * At2(pure_in.prev_c, n, j) + sigmoid(pi) * tanh(pg)
NextHFrom(pi, pf, po, pg, n, j) == sigmoid(po) * tanh(NextCFrom(pi, pf, pg, n, j))

\* C19: both step_forward take the gates from the column chunks [0, H) = i,
\* [H, 2H) = f, [2H, 3H) = o, [3H, 4H) = g of the pre-activation, with
\* next_c = f * prev_c + i * g and next_h = o * tanh(next_c); the attention
\* step adds attn Wattn to the pre-activation, and with attn or Wattn all
\* zero it returns what LSTM.step_forward returns.
C19_GateOrder ==
    CellReturned =>
        /\ pure_out.lstm.next_h.shape = <<CellN, CellH>>
        /\ pure_out.lstm.next_c.shape = <<CellN, CellH>>
        /\ pure_out.attn.next_h.shape = <<CellN, CellH>>
        /\ pure_out.attn.next_c.shape = <<CellN, CellH>>
        /\ \A n \in 0..(CellN - 1) : \A j \in 0..(CellH - 1) :
              /\ At2(pure_out.lstm.next_c, n, j) =
                    NextCFrom(PreactAt(n, j), PreactAt(n, CellH + j),
                              PreactAt(n, 3 * CellH + j), n, j)
              /\ At2(pure_out.lstm.next_h, n, j) =
                    NextHFrom(PreactAt(n, j), PreactAt(n, CellH + j),
                              PreactAt(n, 2 * CellH + j), PreactAt(n, 3 * CellH + j), n, j)
              /\ At2(pure_out.attn.next_c, n, j) =
                    NextCFrom(AttnPreactAt(n, j), AttnPreactAt(n, CellH + j),
                              AttnPreactAt(n, 3 * CellH + j), n, j)
              /\ At2(pure_out.attn.next_h, n, j) =
                    NextHFrom(AttnPreactAt(n, j), AttnPreactAt(n, CellH + j),
                              AttnPreactAt(n, 2 * CellH + j), AttnPreactAt(n, 3 * CellH + j),
                              n, j)
        /\ (IsZero(pure_in.attn) \/ IsZero(pure_in.Wattn)) => pure_out.attn = pure_out.lstm

\* A returned pair of calls with an all-zero attn and a non-zero Wattn, in
\* which the output gate and the candidate of some entry differ and the
\* hidden and cell state returned are not zero.
C19_Witness ==
    /\ CellReturned
    /\ IsZero(pure_in.attn) /\ ~IsZero(pure_in.Wattn)
    /\ pure_out.attn = pure_out.lstm
    /\ ~IsZero(pure_out.lstm.next_h) /\ ~IsZero(pure_out.lstm.next_c)
    /\ \E n \in 0..(CellN - 1) : \E j \in 0..(CellH - 1) :
          sigmoid(PreactAt(n, 2 * CellH + j)) # tanh(PreactAt(n, 3 * CellH + j))

\* -------------------------------- rnn_step_forward then rnn_step_backward
\* One forward step on generated arguments, then one backward step on the
\* cache the forward step returned and a generated upstream gradient.
InitStep ==
    /\ \E N \in 1..MaxN, D \in 1..MaxD, H \in 1..MaxH,
          sx \in 0..MaxSeed, sw \in 0..MaxSeed, sg \in 0..MaxFeatSeed :
          pure_in = [fn |-> "rnn_step",
                     x |-> GenTensor(<<N, D>>, sx),
                     prev_h |-> GenTensor(<<N, H>>, sx + 1),
                     Wx |-> GenTensor(<<D, H>>, sw),
                     Wh |-> GenTensor(<<H, H>>, sw + 1),
                     b |-> GenTensor(<<H>>, sw + 2),
                     dnext_h |-> GenTensor(<<N, H>>, sg)]
    /\ pure_out = NoCall
    /\ RnnIdle /\ SmpIdle /\ SeqIdle /\ CtorIdle

\* rnn_step_forward (lines 115-123) returns next_h and the cache.
StepForwardCall ==
    /\ pure_in.fn = "rnn_step"
    /\ pure_out = NoCall
    /\ LET r == rnn_step_forward(pure_in.x, pure_in.prev_h, pure_in.Wx, pure_in.Wh,
                                  pure_in.b)
       IN pure_out' = [pc |-> "forward", next_h |-> r.next_h, cache |-> r.cache]
    /\ UNCHANGED <<pure_in, rnn_vars, smp_vars, seq_vars, ctor_vars>>

\* rnn_step_backward (lines 149-159) on dnext_h and that cache returns the
\* five gradients; it assigns to no tensor it was given.
StepBackwardCall ==
    /\ pure_in.fn = "rnn_step"
    /\ pure_out.pc = "forward"
    /\ LET g == rnn_step_backward(pure_in.dnext_h, pure_out.cache)
       IN pure_out' = [pure_out EXCEPT !.pc = "returned"] @@ [grads |-> g]
    /\ UNCHANGED <<pure_in, rnn_vars, smp_vars, seq_vars, ctor_vars>>

NextStep == StepForwardCall \/ StepBackwardCall

SpecStep == InitStep /\ [][NextStep]_vars

\* -------------------------------------------- claims: rnn_step_backward
StepReturned == pure_in.fn = "rnn_step" /\ pure_out.pc = "returned"
StepN == pure_in.x.shape[1]
StepD == pure_in.x.shape[2]
StepH == pure_in.prev_h.shape[2]

\* f[0] + ... + f[k]
RECURSIVE SumOver(_, _)
SumOver(f, k) == IF k < 0 THEN 0 ELSE f[k] + SumOver(f, k - 1)

\* Entry (n, j) of dnext_h * (1 - next_h^2), with the next_h the forward
\* step returned.
DpreactAt(n, j) ==
    At2(pure_in.dnext_h, n, j) * (1 - At2(pure_out.next_h, n, j) * At2(pure_out.next_h, n, j))

\* The tensors the two calls were given are what they were at the call.
StepInputsKept ==
    /\ pure_in' = pure_in
    /\ pure_out.pc = "forward" => pure_out'.cache = pure_out.cache

\* C20: with dpreact = dnext_h * (1 - next_h^2) on the cached next_h of the
\* forward step, rnn_step_backward returns db = the sum of dpreact over the
\* batch, dWh = prev_h^T dpreact, dprev_h = dpreact Wh^T, dWx = x^T dpreact
\* and dx = dpreact Wx^T, and changes none of the tensors it was given.
C20_StepBackward ==
    /\ [](StepReturned =>
            LET g == pure_out.grads
                Ns == 0..(StepN - 1)
                Ds == 0..(StepD - 1)
                Hs == 0..(StepH - 1)
            IN /\ pure_out.cache.next_h = pure_out.next_h
               /\ pure_out.cache.x = pure_in.x /\ pure_out.cache.prev_h = pure_in.prev_h
               /\ pure_out.cache.Wx = pure_in.Wx /\ pure_out.cache.Wh = pure_in.Wh
               /\ g.db.shape = <<StepH>> /\ g.dWh.shape = <<StepH, StepH>>
               /\ g.dprev_h.shape = <<StepN, StepH>> /\ g.dWx.shape = <<StepD, StepH>>
               /\ g.dx.shape = <<StepN, StepD>>
               /\ \A j \in Hs :
                     g.db.data[j + 1] = SumOver([n \in Ns |-> DpreactAt(n, j)], StepN - 1)
               /\ \A i \in Hs : \A j \in Hs :
                     At2(g.dWh, i, j) =
                       SumOver([n \in Ns |-> At2(pure_in.prev_h, n, i) * DpreactAt(n, j)],
                               StepN - 1)
               /\ \A n \in Ns : \A i \in Hs :
                     At2(g.dprev_h, n, i) =
                       SumOver([j \in Hs |-> DpreactAt(n, j) * At2(pure_in.Wh, i, j)],
                               StepH - 1)
               /\ \A d \in Ds : \A j \in Hs :
                     At2(g.dWx, d, j) =
                       SumOver([n \in Ns |-> At2(pure_in.x, n, d) * DpreactAt(n, j)],
                               StepN - 1)
               /\ \A n \in Ns : \A d \in Ds :
                     At2(g.dx, n, d) =
                       SumOver([j \in Hs |-> DpreactAt(n, j) * At2(pure_in.Wx, d, j)],
                               StepH - 1))
    /\ [][StepInputsKept]_vars

\* A returned backward step in which some entry of next_h is saturated
\* where the upstream gradient is not zero, another entry passes its
\* gradient, and none of the five gradients is zero.
C20_Witness ==
    /\ StepReturned
    /\ \E n \in 0..(StepN - 1) : \E j \in 0..(StepH - 1) :
          At2(pure_out.next_h, n, j) # 0 /\ At2(pure_in.dnext_h, n, j) # 0
    /\ \E n \in 0..(StepN - 1) : \E j \in 0..(StepH - 1) : DpreactAt(n, j) # 0
    /\ ~IsZero(pure_out.grads.db) /\ ~IsZero(pure_out.grads.dWh)
    /\ ~IsZero(pure_out.grads.dprev_h) /\ ~IsZero(pure_out.grads.dWx)
    /\ ~IsZero(pure_out.grads.dx)

\* ------------------------------------- claims: the ended flag of the sampler
SampleRunning == smp_in # NoCall /\ smp.pc \in {"loop", "break", "raised", "returned"}

\* The flag of lane n after the mask update of the executed timestep t: the
\* mask of the write captions[notend, t] = input[notend].
NotendAfter(n, t) ==
    IF Executed(t + 1) THEN StepAt(t + 1).notend.data[n + 1] ELSE smp.notend.data[n + 1]

\* The loop wrote slot t of lane n.
WrittenAt(n, t) == Executed(t) /\ NotendAfter(n, t) # 0

\* A lane that is ended stays ended over a step of the sampler.
EndedLatch ==
    (SampleRunning /\ smp'.pc \in {"loop", "break", "raised", "returned"}) =>
        \A n \in Lanes : smp.notend.data[n + 1] = 0 => smp'.notend.data[n + 1] = 0

\* C21: the ended flag of a lane is a latch: once cleared it stays cleared
\* at every later step, whatever the lane selects afterwards; so for every
\* lane the slots the loop wrote are a prefix 0..j-1 of the positions, each
\* holding the token selected at its step, and every slot from j on is
\* unwritten and holds <NULL>.
C21_EndedLatch ==
    /\ [][EndedLatch]_vars
    /\ [](SampleRunning =>
            \A n \in Lanes : \E j \in 0..smp_in.max_length :
                /\ \A t \in Slots : t < j =>
                      WrittenAt(n, t) /\ At2(smp.captions, n, t) = Selected(n, t)
                /\ \A t \in Slots : t >= j =>
                      ~WrittenAt(n, t) /\ At2(smp.captions, n, t) = NULL)

\* A returned run in which a lane selected <END> at a step k and a token
\* other than <END> and <NULL> at a later step t, slot t of that lane left
\* at <NULL> while another lane wrote a word to its slot t.
C21_Witness ==
    /\ Returned
    /\ \E n \in Lanes : \E m \in Lanes : \E k \in Slots : \E t \in Slots :
          /\ k < t /\ Executed(t)
          /\ Selected(n, k) = END
          /\ Selected(n, t) \notin {END, NULL}
          /\ ~WrittenAt(n, t) /\ At2(smp.captions, n, t) = NULL
          /\ WrittenAt(m, t) /\ At2(smp.captions, m, t) # NULL

\* ------------------------------------ claims: the ended lanes of the sampler
\* Row n of a matrix.
RowOf(a, n) == [j \in 1..a.shape[2] |-> At2(a, n, j - 1)]

\* The cell state held after the executed timestep t.
CellAfter(t) == IF Executed(t + 1) THEN StepAt(t + 1).c ELSE smp.c

\* The cell update of timestep t recomputed on the whole batch from what the
\* step read: the words fed, h and c held before it, and the grid.
Recomputed(t) ==
    LET m == smp_in.model
        e == wordEmbedding(StepAt(t).input)
    IN IF cell_type = "rnn"
       THEN [next_h |-> rnn_step_forward(e, StepAt(t).h, m.Wx, m.Wh, m.b).next_h,
             next_c |-> StepAt(t).c]
       ELSE IF cell_type = "lstm"
       THEN lstm_step_forward(e, StepAt(t).h, StepAt(t).c, m.Wx, m.Wh, m.b)
       ELSE attn_step_forward(e, StepAt(t).h, StepAt(t).c,
                              dot_product_attention(StepAt(t).h, smp_in.features).attn,
                              m.Wx, m.Wh, m.Wattn, m.b)

\* C22: a lane that was ended when timestep t began is not frozen at t: the
\* step still replaces its hidden state (and, for the LSTM variants, its
\* cell state) by the cell update of its own input, h and c, the next step
\* is fed its own arg max token, and for 'attn' its attention weights of
\* timestep t are recorded; only its slot t of the captions is left alone.
C22_EndedNotFrozen ==
    smp_in # NoCall =>
        \A t \in Slots : \A n \in Lanes :
            (Executed(t) /\ ~ActiveAt(n, t)) =>
                /\ RowOf(StepAt(t).next_h, n) = RowOf(Recomputed(t).next_h, n)
                /\ cell_type # "rnn" =>
                      RowOf(CellAfter(t), n) = RowOf(Recomputed(t).next_c, n)
                /\ Selected(n, t) = Greedy(n, t)
                /\ Executed(t + 1) =>
                      /\ StepAt(t + 1).input.data[n + 1] = Greedy(n, t)
                      /\ RowOf(StepAt(t + 1).h, n) = RowOf(StepAt(t).next_h, n)
                /\ cell_type = "attn" =>
                      WeightsAt(smp.attn_weights_all, n, t) =
                        WeightsAt(reshape(dot_product_attention(StepAt(t).h,
                                                                smp_in.features).attn_weights,
                                          <<smp_in.N, 1, Grid, Grid>>), n, 0)
                /\ At2(smp.captions, n, t) = NULL

\* A returned attention run that kept going at a timestep t for a lane m
\* still active, in which a lane n ended before t got at t a new hidden
\* state, a new word to be fed and newly recorded weights, its slot t left
\* at <NULL>.
C22_Witness ==
    /\ Returned /\ cell_type = "attn"
    /\ \E n \in Lanes : \E m \in Lanes : \E t \in Slots :
          /\ t > 0 /\ Executed(t) /\ ~ActiveAt(n, t) /\ ActiveAt(m, t)
          /\ RowOf(StepAt(t).next_h, n) # RowOf(StepAt(t).h, n)
          /\ Selected(n, t) # StepAt(t).input.data[n + 1]
          /\ WeightsAt(smp.attn_weights_all, n, t) # WeightsAt(smp.attn_weights_all, n, t - 1)
          /\ At2(smp.captions, n, t) = NULL

\* ----------------------------------------------------- CaptioningRNN.forward
\* CaptioningRNN.forward on the images sample was given, with the captions
\* <START> followed by the words sample selected at its executed steps.
InitForward == InitSample

\* captions: (N, T + 1), column 0 <START>, column u the words of step u - 1.
SampledCaptions ==
    LET T == Len(steps)
    IN Tensor(<<smp_in.N, T + 1>>,
              [k \in 1..(smp_in.N * (T + 1)) |->
                 LET n == (k - 1) \div (T + 1)
                     u == (k - 1) % (T + 1)
                 IN IF u = 0 THEN START ELSE steps[u].selected.data[n + 1]])

\* captions[:, :-1] (from = 0) and captions[:, 1:] (from = 1)
Columns(captions, from) ==
    LET T == captions.shape[2] - 1
    IN Tensor(<<captions.shape[1], T>>,
              [k \in 1..(captions.shape[1] * T) |->
                 captions.data[((k - 1) \div T) * (T + 1) + ((k - 1) % T) + from + 1]])

\* WordEmbedding.forward: W_embed[x] for a matrix x of word indices
embed_words(x) ==
    LET W == smp_in.model.W_embed
        D == W.shape[2]
    IN Tensor(<<x.shape[1], x.shape[2], D>>,
              [k \in 1..(Prod(x.shape) * D) |->
                 At2(W, x.data[((k - 1) \div D) + 1], (k - 1) % D)])

\* outProjector on the hidden states of all timesteps: (N, T, H) to (N, T, V)
temporal_affine(h) ==
    LET V == smp_in.model.Wout.shape[1]
        T == h.shape[2]
    IN Tensor(<<h.shape[1], T, V>>,
              [k \in 1..(h.shape[1] * T * V) |->
                 At2(outProjector(SliceT(h, ((k - 1) \div V) % T)),
                     (k - 1) \div (T * V), (k - 1) % V)])

\* The arguments coreNetwork gets (line 543): rnn_forward's for 'rnn', those
\* of LSTM.forward or AttentionLSTM.forward otherwise.
CoreArgsRnn(x) ==
    [x |-> x, h0 |-> smp_in.features, Wx |-> smp_in.model.Wx, Wh |-> smp_in.model.Wh,
     b |-> smp_in.model.b, dh |-> None]
CoreArgsSeq(x) ==
    [kind |-> cell_type, x |-> x,
     h0 |-> IF cell_type = "lstm" THEN smp_in.features ELSE None,
     A |-> IF cell_type = "attn" THEN smp_in.features ELSE None,
     Wx |-> smp_in.model.Wx, Wh |-> smp_in.model.Wh, Wattn |-> smp_in.model.Wattn,
     b |-> smp_in.model.b]

\* Lines 499-543: the captions are cut, the features projected, the words
\* embedded, and the core network is called on them.
ForwardCall ==
    /\ smp.pc = "returned"
    /\ pure_in.fn = "none"
    /\ pure_in' = [fn |-> "forward", captions |-> SampledCaptions]
    /\ pure_out' = [pc |-> "core"]
    /\ IF cell_type = "rnn"
       THEN /\ rnn_in' = CoreArgsRnn(embed_words(Columns(SampledCaptions, 0)))
            /\ rnn_pc' = "start"
            /\ UNCHANGED <<fwd, bwd, calls, seq_vars>>
       ELSE /\ seq_in' = CoreArgsSeq(embed_words(Columns(SampledCaptions, 0)))
            /\ seq' = [pc |-> "start"]
            /\ UNCHANGED <<seq_log, rnn_vars>>
    /\ UNCHANGED <<smp_vars, ctor_vars>>

\* What forward leaves, given the hidden states of the core network: the
\* scores (line 547) and the loss (line 550), ignore_index being <NULL>.
ForwardResult(hstates) ==
    [pc |-> "returned", hstates |-> hstates,
     loss |-> temporal_softmax_loss(temporal_affine(hstates),
                                    Columns(pure_in.captions, 1), NULL)]

\* Lines 543-556: the core network has returned hstates, or has raised.
ForwardReturn ==
    /\ pure_in.fn = "forward"
    /\ pure_out.pc = "core"
    /\ \/ rnn_pc = "fwd_returned" /\ pure_out' = ForwardResult(fwd.h)
       \/ seq.pc = "returned" /\ pure_out' = ForwardResult(seq.result)
       \/ (rnn_pc = "fwd_raised" \/ seq.pc = "raised") /\ pure_out' = [pc |-> "raised"]
    /\ UNCHANGED <<pure_in, rnn_vars, smp_vars, seq_vars, ctor_vars>>

NextForward ==
    \/ SampleCall
    \/ SampleStep
    \/ SampleReturn
    \/ ForwardCall
    \/ RnnForwardCall
    \/ RnnForwardIter
    \/ RnnForwardReturn
    \/ SeqCall
    \/ SeqStep
    \/ SeqReturn
    \/ ForwardReturn

SpecForward == InitForward /\ [][NextForward]_vars

\* --------------------------------------------- claims: sample and forward
\* The state the sampler started from, and the one the runner started from.
SamplerStart == IF Executed(0) THEN [h |-> StepAt(0).h, c |-> StepAt(0).c]
                ELSE [h |-> smp.h, c |-> smp.c]
RunnerStart == IF cell_type = "rnn" THEN [h |-> rnn_in.h0, c |-> SamplerStart.c]
               ELSE [h |-> SeqInitial.h0, c |-> SeqInitial.c0]

\* C23: forward, fed <START> followed by the words sample selected, starts
\* its core network from the state sample started from, runs to the end, and
\* its hidden state output at timestep t is the hidden state sample held
\* after its step t, for every step sample executed.
C23_SamplerMatchesRunner ==
    pure_in.fn = "forward" =>
        /\ RunnerStart = SamplerStart
        /\ pure_out.pc # "raised"
        /\ pure_out.pc = "returned" =>
              \A t \in 0..(Len(steps) - 1) :
                  SliceT(pure_out.hstates, t) = StepAt(t).next_h

====
